---- MODULE Spec2Model ----
(***************************************************************************)
(* Model of the NTP client of ntp-clock (src/ntp_client.c, ntp_client.h)   *)
(* and of the calls the display (src/clock_display.c) makes into it.       *)
(*                                                                         *)
(* Each thread of the process is a caller of the public operations.  The   *)
(* shared state is the global client_state; its pthread mutex is modelled  *)
(* by its owner and its lifecycle state.  The wall clock (gettimeofday)    *)
(* and the network (send_ntp_request's system calls) are the environment.  *)
(***************************************************************************)
EXTENDS Integers, Sequences, FiniteSets, TLC

(***************************************************************************)
(* Wide integers.  TLC's integers are 32 bits wide, the program's time_t   *)
(* and int64_t are 64 bits and its NTP seconds are unsigned 32 bits, so a  *)
(* value v is kept as [q, r] with v = q * Kilo3 + r and 0 <= r < Kilo3.    *)
(***************************************************************************)
Kilo3 == 1000 * 1000 * 1000

Big(q, r) == [q |-> q, r |-> r]

BigOfInt(n) == [q |-> n \div Kilo3, r |-> n % Kilo3]

BigAdd(a, b) ==
    LET s == a.r + b.r
    IN  [q |-> a.q + b.q + (s \div Kilo3), r |-> s % Kilo3]

BigSub(a, b) ==
    LET d == a.r - b.r
    IN  [q |-> a.q - b.q + (d \div Kilo3), r |-> d % Kilo3]

BigLess(a, b) == a.q < b.q \/ (a.q = b.q /\ a.r < b.r)

BigLeq(a, b) == a = b \/ BigLess(a, b)

BigZero == Big(0, 0)

(***************************************************************************)
(* Program constants.                                                      *)
(***************************************************************************)
\* #define NTP_TIMESTAMP_DELTA 2208988800UL
NTP_TIMESTAMP_DELTA == Big(2, 208988800)

\* #define NTP_STRATUM_MAX 16
NTP_STRATUM_MAX == 16

\* sizeof(client_state.config.server_name)
SERVER_NAME_SIZE == 256

\* ntp_status_t
NTP_OK == "NTP_OK"
NTP_ERROR_NETWORK == "NTP_ERROR_NETWORK"
NTP_ERROR_TIMEOUT == "NTP_ERROR_TIMEOUT"
NTP_ERROR_SERVER == "NTP_ERROR_SERVER"
NTP_ERROR_INVALID_PARAM == "NTP_ERROR_INVALID_PARAM"
NTP_ERROR_NOT_INIT == "NTP_ERROR_NOT_INIT"

(***************************************************************************)
(* Bounds of the model.                                                    *)
(***************************************************************************)
\* number of caller threads
NumThreads == 2

\* the conversions are applied to the times within MaxSkew seconds of each
\* boundary of their domains
MaxSkew == 10

\* seconds the wall clock advances during a behaviour
MaxTicks == 1

\* the configured retry_count ranges over 0 .. MaxRetry
MaxRetry == 2

\* pointer arguments and optional values: NULL, or a pointer to x
NULL == << >>

Ptr(x) == <<x>>

Deref(p) == p[1]

Threads == 1 .. NumThreads

(***************************************************************************)
(* Environment values: server names (strings as sequences of characters),  *)
(* configurations handed to ntp_init, wall-clock start, response packets.  *)
(***************************************************************************)
NameA == <<"a">>

NameB == <<"b", "b">>

\* main(): port 123, timeout 5000 ms, sync interval 7200 s
Config(name, retries) ==
    [server_name |-> name, server_port |-> 123, timeout_ms |-> 5000,
     retry_count |-> retries, sync_interval |-> 7200]

\* the zero-filled configuration of the static client_state
ZeroConfig ==
    [server_name |-> << >>, server_port |-> 0, timeout_ms |-> 0,
     retry_count |-> 0, sync_interval |-> 0]

\* Unix 1699999995, the local clock at the start of a behaviour
ClockStart == Big(1, 699999995)

\* NTP seconds of Unix 1700000000 and of Unix 1699999990
TxA == Big(3, 908988800)

TxB == Big(3, 908988790)

\* li_vn_mode bytes: version 4 with mode 4 (server), 2 (symmetric passive),
\* 3 (client)
ModeServer == (4 * 8) + 4

ModePassive == (4 * 8) + 2

ModeClient == (4 * 8) + 3

Packet(m, s, tx) == [li_vn_mode |-> m, stratum |-> s, tx_timestamp_sec |-> tx]

\* the response buffer of ntp_sync before any datagram was stored in it
NoResponse == Packet(0, 0, BigZero)

(***************************************************************************)
(* State.                                                                  *)
(*   client_state  the fields of the global client_state but its lock      *)
(*   mutex         client_state.lock: lifecycle state and owning threads   *)
(*   ticks         seconds the wall clock has advanced since ClockStart    *)
(*   frame         per thread: position, operation called, its arguments,  *)
(*                 its locals, its return value and what it stored in the  *)
(*                 caller's buffer                                         *)
(*   env           which environment the behaviour runs in (fixed by Init) *)
(*   hist          per thread: the retry_count and the server name its     *)
(*                 last ntp_sync invocation found configured, what each    *)
(*                 send_ntp_request call of that invocation returned, in   *)
(*                 order, and the pauses it has taken (history)            *)
(*   pre           per thread: client_state when it last took the lock in  *)
(*                 ntp_sync (history)                                      *)
(*   tag           the thread whose ntp_sync wrote time_offset last, the   *)
(*                 one whose ntp_sync wrote last_sync_time last, and the   *)
(*                 server name the last committed exchange was made with   *)
(*                 (history)                                               *)
(*   display       the display's main: its position, the time_since_sync   *)
(*                 it read last, whether it is in its startup or its loop, *)
(*                 the syncs it invoked at startup and whether SIGINT was  *)
(*                 delivered (the last two are history)                    *)
(***************************************************************************)
VARIABLES client_state, mutex, ticks, frame, env, hist, pre, tag, display

vars == <<client_state, mutex, ticks, frame, env, hist, pre, tag, display>>

\* static ntp_client_state_t client_state = { false, false, 0, 0, 0 }
StaticClientState ==
    [initialized |-> FALSE, ever_synced |-> FALSE, config |-> ZeroConfig,
     last_sync_time |-> BigZero, ntp_time |-> BigZero, time_offset |-> BigZero]

\* the arguments of a call of ntp_getServerName or ntp_setServer
NoArg == [buffer |-> NULL, buffer_size |-> 0, server_name |-> NULL]

\* recvfrom has not returned a byte count
NoDatagram == 0 - 1

\* the call of send_ntp_request a thread is in or has just returned from:
\* its server_name argument, the system call it is at or returned after,
\* its socket, the close calls it made on it, the request datagrams it sent
\* and the byte count recvfrom returned to it
NoRequest ==
    [server_name |-> NULL, stage |-> "none", sockfd |-> "none", closes |-> 0,
     sent |-> 0, received |-> NoDatagram]

IdleFrame ==
    [pc |-> "idle", call |-> "none", arg |-> NoArg, ret |-> "none",
     value |-> BigZero, flag |-> FALSE, buffer |-> NULL, attempts |-> 0,
     status |-> "none", response |-> NoResponse, server_time |-> BigZero,
     current_time |-> BigZero, request |-> NoRequest]

NoTag == NumThreads - NumThreads

NoHist == [retry_count |-> 0, server_name |-> NULL, exch |-> << >>, pauses |-> 0]

\* main before its first statement
DisplayStart ==
    [pc |-> "init", time_since_sync |-> BigZero, at |-> "startup",
     startup_syncs |-> 0, sigint |-> FALSE]

InitState(e) ==
    /\ client_state = StaticClientState
    /\ mutex = [state |-> "static", owner |-> {}]
    /\ ticks = 0
    /\ frame = [t \in Threads |-> IdleFrame]
    /\ env = e
    /\ hist = [t \in Threads |-> NoHist]
    /\ pre = [t \in Threads |-> NULL]
    /\ tag = [offset |-> NoTag, last |-> NoTag, server |-> NULL]
    /\ display = DisplayStart

(***************************************************************************)
(* Environments.  "concurrent": NumThreads callers.  "sequential": one     *)
(* caller, a longer run of the clock and one more retry.  "bytes": one     *)
(* caller and every response header, li_vn_mode and stratum ranging over   *)
(* all values of a uint8_t.  "micros": one caller, the microseconds of the  *)
(* wall clock, and responses whose transmit seconds are below and above    *)
(* NTP_TIMESTAMP_DELTA.  "names": NumThreads callers, buffers of every     *)
(* small size and a server name longer than the configuration holds.       *)
(* "display": the one thread of the display's main, the wall clock         *)
(* advancing by the hour.  "short": one caller, and response datagrams     *)
(* that end before the end of the packet layout.  "live": NumThreads        *)
(* callers that go on calling for ever, the wall clock standing still.     *)
(* "anyorder": NumThreads callers that call ntp_init, ntp_cleanup,         *)
(* ntp_sync, ntp_setServer and a reader whatever the other threads are     *)
(* doing.  "epoch": one caller, and responses whose transmit seconds are   *)
(* the Unix epoch and the second after it.                                 *)
(***************************************************************************)
\* uint8_t li_vn_mode, stratum
UINT8_MAX == 255

\* the responses a server sends in the concurrent and sequential environments
SpecResponses ==
    {Packet(ModeServer, 2, TxA), Packet(ModePassive, 1, TxB),
     Packet(ModeServer, 0, TxA)}

EnvThreads ==
    IF env \in {"concurrent", "names", "live", "anyorder"} THEN Threads ELSE {1}

EnvMaxTicks ==
    CASE env \in {"concurrent", "micros", "epoch"} -> MaxTicks
      [] env \in {"sequential", "display"} -> MaxTicks + 3
      [] OTHER -> 0

EnvConfigs ==
    CASE env = "concurrent" ->
            {NULL} \cup {Ptr(Config(NameA, n)) : n \in 0 .. MaxRetry}
      [] env = "sequential" ->
            {NULL} \cup {Ptr(Config(NameA, n)) : n \in 0 .. MaxRetry + 1}
      [] env = "live" -> {Ptr(Config(NameA, n)) : n \in 0 .. MaxRetry}
      [] env = "anyorder" -> {NULL, Ptr(Config(NameA, MaxRetry))}
      [] OTHER -> {Ptr(Config(NameA, 1))}

\* a name of SERVER_NAME_SIZE + 1 characters
LongName == [i \in 1 .. SERVER_NAME_SIZE + 1 |-> "c"]

EnvNames ==
    IF env = "names"
    THEN {NULL, Ptr(NameB), Ptr(LongName)}
    ELSE {NULL, Ptr(NameB)}

EnvBuffers ==
    IF env = "names"
    THEN {<<NULL, SERVER_NAME_SIZE>>}
            \cup {<<Ptr("buffer"), n>> : n \in {0, 1, 2, 3, SERVER_NAME_SIZE}}
    ELSE {<<NULL, SERVER_NAME_SIZE>>, <<Ptr("buffer"), SERVER_NAME_SIZE>>}

\* transmit seconds 0, 1 and 2^32 - 1: the ends of the uint32_t range
TxZero == Big(0, 0)

TxOne == Big(0, 1)

TxMax == Big(4, 294967295)

\* transmit seconds of Unix 0 and of Unix 1
TxEpoch == NTP_TIMESTAMP_DELTA

TxEpochOne == BigAdd(NTP_TIMESTAMP_DELTA, BigOfInt(1))

EnvResponses ==
    CASE env \in {"live", "anyorder"} -> {Packet(ModeServer, 2, TxA)}
      [] env = "bytes" ->
            {Packet(m, s, TxA) : m \in 0 .. UINT8_MAX, s \in 0 .. UINT8_MAX}
      [] env = "micros" ->
            {Packet(ModeServer, 1, tx) : tx \in {TxZero, TxOne, TxA, TxMax}}
      [] env = "epoch" ->
            {Packet(ModeServer, 1, tx) : tx \in {TxEpoch, TxEpochOne, TxA}}
      [] OTHER -> SpecResponses

\* gettimeofday(&tv, NULL); tv.tv_usec
EnvMicros == {0, 1, 250000, 999999}

(***************************************************************************)
(* Pure functions of the client.                                           *)
(***************************************************************************)
\* the epoch offset added instead of subtracted
ntp_time_plus_delta(ntp_seconds) == BigAdd(ntp_seconds, NTP_TIMESTAMP_DELTA)

\* return ntp_seconds - NTP_TIMESTAMP_DELTA;  the difference of a uint32_t and
\* an unsigned long, converted to the signed 64-bit time_t: for every 32-bit
\* ntp_seconds that is the mathematical difference.
ntp_time_to_unix_time(ntp_seconds) == BigSub(ntp_seconds, NTP_TIMESTAMP_DELTA)

\* 2^32, the modulus of uint32_t arithmetic
UINT32_MODULUS == Big(4, 294967296)

\* the conversion of a wide integer to uint32_t
RECURSIVE ToUint32(_)
ToUint32(x) ==
    IF BigLess(x, BigZero) THEN ToUint32(BigAdd(x, UINT32_MODULUS))
    ELSE IF BigLeq(UINT32_MODULUS, x) THEN ToUint32(BigSub(x, UINT32_MODULUS))
    ELSE x

\* return unix_seconds + NTP_TIMESTAMP_DELTA;  the sum of a time_t and an
\* unsigned long, converted to the uint32_t returned
unix_time_to_ntp_time(unix_seconds) ==
    ToUint32(BigAdd(unix_seconds, NTP_TIMESTAMP_DELTA))

\* (response.li_vn_mode & 0x07) != 4 && (... & 0x07) != 2  rejects
ModeAccepted(li_vn_mode) ==
    ~((li_vn_mode % 8) # 4 /\ (li_vn_mode % 8) # 2)

\* stratum 16 let through
StratumUpToMax(stratum) == ~(stratum = 0 \/ stratum > NTP_STRATUM_MAX)

\* response.stratum == 0 || response.stratum >= NTP_STRATUM_MAX  rejects
StratumAccepted(stratum) == ~(stratum = 0 \/ stratum >= NTP_STRATUM_MAX)

\* no truncation
strncpy_whole(src, n) == src

\* strncpy(dst, src, n); dst[n] = '\0'  read back as a C string
strncpy(src, n) == SubSeq(src, 1, IF Len(src) < n THEN Len(src) ELSE n)

\* the terminating and padding byte of a C string
NUL == "NUL"

\* the n bytes strncpy(dst, src, n) stores: the characters of src up to n,
\* then NULs up to n
strncpy_bytes(src, n) == [i \in 1 .. n |-> IF i <= Len(src) THEN src[i] ELSE NUL]

\* the bytes with none added after them
Unterminated(bytes) == bytes

\* dst[n] = '\0' after the n bytes
Terminated(bytes) == Append(bytes, NUL)

\* seconds the wall clock advances at a time
TickSeconds == IF env = "display" THEN 60 * 60 ELSE 1

\* gettimeofday(&tv, NULL); tv.tv_sec
tv_sec == BigAdd(ClockStart, BigOfInt(ticks * TickSeconds))

(***************************************************************************)
(* The mutex.  Locking a mutex that pthread_mutex_init has not initialised *)
(* or that pthread_mutex_destroy has destroyed is undefined: the call      *)
(* either works as on a default mutex or fails, and the code ignores its   *)
(* result and goes on without owning the lock.                             *)
(***************************************************************************)
\* a caller that does not wait for the lock
LockableAlways == TRUE

Lockable == mutex.owner = {} \/ mutex.state # "init"

LockOutcomes(t) ==
    (IF mutex.owner = {} THEN {[mutex EXCEPT !.owner = {t}]} ELSE {})
    \cup (IF mutex.state # "init" THEN {mutex} ELSE {})

Unlocked(m, t) == [m EXCEPT !.owner = @ \ {t}]

Idle(t) == frame[t].pc \in {"idle", "done"}

\* thread t calls operation name and gets the lock at once, or has called it
\* and waited for the lock, which is free now
Entering(t, name) == (Idle(t) \/ frame[t].pc = name) /\ Lockable

Quiescent(t) == \A u \in Threads \ {t} : Idle(u)

\* the frame of a thread that has called operation name and is at `at`
Called(name, at) ==
    [IdleFrame EXCEPT !.pc = at, !.call = name]

\* the frame after the return of a status, of a time value, of a bool; the
\* locals of the operation are gone
Return(name, r) == [Called(name, "done") EXCEPT !.ret = r]

ReturnValue(name, v) ==
    [Called(name, "done") EXCEPT !.ret = "value", !.value = v]

ReturnFlag(name, b) ==
    [Called(name, "done") EXCEPT !.ret = "bool", !.flag = b]

(***************************************************************************)
(* ntp_init and ntp_cleanup.                                               *)
(***************************************************************************)
\* ntp_init without the assignment of line 247
ntp_init_keeps_ever_synced(t, config) ==
    /\ Idle(t)
    /\ hist' = [hist EXCEPT ![t] = NoHist]
    /\ UNCHANGED <<ticks, env, pre>>
    /\ \/ /\ config = NULL
          /\ frame' = [frame EXCEPT ![t] =
                          Return("ntp_init", NTP_ERROR_INVALID_PARAM)]
          /\ UNCHANGED <<client_state, mutex, tag>>
       \/ /\ config # NULL
          /\ frame' = [frame EXCEPT ![t] =
                          Return("ntp_init", NTP_ERROR_NETWORK)]
          /\ UNCHANGED <<client_state, mutex, tag>>
       \/ /\ config # NULL
          /\ mutex' = [state |-> "init", owner |-> {}]
          /\ client_state' =
                [initialized |-> TRUE, ever_synced |-> client_state.ever_synced,
                 config |-> Deref(config), last_sync_time |-> BigZero,
                 ntp_time |-> BigZero, time_offset |-> BigZero]
          /\ tag' = [offset |-> NoTag, last |-> NoTag, server |-> NULL]
          /\ frame' = [frame EXCEPT ![t] = Return("ntp_init", NTP_OK)]

\* ntp_init(config), lines 231-256: NULL is refused; pthread_mutex_init may
\* fail; otherwise the configuration is copied and the clock state reset
\* under the new lock.
ntp_init(t, config) ==
    /\ Idle(t)
    /\ hist' = [hist EXCEPT ![t] = NoHist]
    /\ UNCHANGED <<ticks, env, pre>>
    /\ \/ /\ config = NULL
          /\ frame' = [frame EXCEPT ![t] =
                          Return("ntp_init", NTP_ERROR_INVALID_PARAM)]
          /\ UNCHANGED <<client_state, mutex, tag>>
       \/ /\ config # NULL
          /\ frame' = [frame EXCEPT ![t] =
                          Return("ntp_init", NTP_ERROR_NETWORK)]
          /\ UNCHANGED <<client_state, mutex, tag>>
       \/ /\ config # NULL
          /\ mutex' = [state |-> "init", owner |-> {}]
          /\ client_state' =
                [initialized |-> TRUE, ever_synced |-> FALSE,
                 config |-> Deref(config), last_sync_time |-> BigZero,
                 ntp_time |-> BigZero, time_offset |-> BigZero]
          /\ tag' = [offset |-> NoTag, last |-> NoTag, server |-> NULL]
          /\ frame' = [frame EXCEPT ![t] = Return("ntp_init", NTP_OK)]

\* ntp_cleanup(), lines 258-265: initialized = false under the lock, then the
\* lock is destroyed.
ntp_cleanup(t) ==
    /\ Idle(t)
    /\ Lockable
    /\ client_state' = [client_state EXCEPT !.initialized = FALSE]
    /\ mutex' = [state |-> "destroyed", owner |-> mutex.owner \ {t}]
    /\ frame' = [frame EXCEPT ![t] = Return("ntp_cleanup", "void")]
    /\ hist' = [hist EXCEPT ![t] = NoHist]
    /\ UNCHANGED <<ticks, env, pre, tag>>

(***************************************************************************)
(* A call that finds the lock taken waits for it (pthread_mutex_lock       *)
(* blocks); a call that finds it free goes on in the same step.            *)
(***************************************************************************)
Calls ==
    {"ntp_sync", "ntp_getCurrentTime", "ntp_getTimeSinceLastSync",
     "ntp_getServerName", "ntp_hasEverSynced", "ntp_setServer"}

Block(t, name) ==
    /\ Idle(t)
    /\ ~Lockable
    /\ frame' = [frame EXCEPT ![t] = Called(name, name)]
    /\ hist' = [hist EXCEPT ![t] = NoHist]
    /\ UNCHANGED <<client_state, mutex, ticks, env, pre, tag>>

(***************************************************************************)
(* ntp_sync.                                                               *)
(***************************************************************************)
\* the loop of lines 282-298 as a while loop: the test of line 298 made
\* before the first call of send_ntp_request
ntp_sync_lock_while(t) ==
    /\ Entering(t, "ntp_sync")
    /\ IF ~client_state.initialized
       THEN /\ frame' = [frame EXCEPT ![t] =
                            Return("ntp_sync", NTP_ERROR_NOT_INIT)]
            /\ UNCHANGED <<mutex, pre>>
       ELSE IF ~(0 < client_state.config.retry_count)
       THEN /\ frame' = [frame EXCEPT ![t] =
                            Return("ntp_sync", NTP_ERROR_NETWORK)]
            /\ UNCHANGED <<mutex, pre>>
       ELSE /\ \E m \in LockOutcomes(t) : mutex' = m
            /\ pre' = [pre EXCEPT ![t] = Ptr(client_state)]
            /\ frame' = [frame EXCEPT ![t] = Called("ntp_sync", "sync_request")]
    /\ hist' = [hist EXCEPT ![t] =
                   [retry_count |-> client_state.config.retry_count,
                    server_name |-> Ptr(client_state.config.server_name),
                    exch |-> << >>, pauses |-> 0]]
    /\ UNCHANGED <<client_state, ticks, env, tag>>

\* an ntp_sync that does not look at initialized
ntp_sync_lock_unchecked(t) ==
    /\ Entering(t, "ntp_sync")
    /\ \E m \in LockOutcomes(t) : mutex' = m
    /\ pre' = [pre EXCEPT ![t] = Ptr(client_state)]
    /\ frame' = [frame EXCEPT ![t] = Called("ntp_sync", "sync_request")]
    /\ hist' = [hist EXCEPT ![t] =
                   [retry_count |-> client_state.config.retry_count,
                    server_name |-> Ptr(client_state.config.server_name),
                    exch |-> << >>, pauses |-> 0]]
    /\ UNCHANGED <<client_state, ticks, env, tag>>

\* lines 267-279: attempts = 0; take the lock; not initialized: unlock and
\* return NTP_ERROR_NOT_INIT
ntp_sync_lock(t) ==
    /\ Entering(t, "ntp_sync")
    /\ IF ~client_state.initialized
       THEN /\ frame' = [frame EXCEPT ![t] =
                            Return("ntp_sync", NTP_ERROR_NOT_INIT)]
            /\ UNCHANGED <<mutex, pre>>
       ELSE /\ \E m \in LockOutcomes(t) : mutex' = m
            /\ pre' = [pre EXCEPT ![t] = Ptr(client_state)]
            /\ frame' = [frame EXCEPT ![t] = Called("ntp_sync", "sync_request")]
    /\ hist' = [hist EXCEPT ![t] =
                   [retry_count |-> client_state.config.retry_count,
                    server_name |-> Ptr(client_state.config.server_name),
                    exch |-> << >>, pauses |-> 0]]
    /\ UNCHANGED <<client_state, ticks, env, tag>>

\* send_ntp_request, lines 160-198: socket, setsockopt, resolve_hostname,
\* inet_pton, create_ntp_packet and sendto; a failure of any returns
\* NTP_ERROR_NETWORK, otherwise the request is sent and the thread waits in
\* select.
Exchanged(status, response) == [status |-> status, response |-> response]

SendStages == {"socket", "setsockopt", "resolve_hostname", "inet_pton", "sendto"}

\* the return paths after the request was sent: select fails (line 206),
\* select returns 0 (line 209), recvfrom fails (line 215), the end (line 228)
RecvFailures == {"select", "recvfrom"}

\* every failure reported as a network error
StageStatusNetwork(stage) ==
    IF stage = "done" THEN NTP_OK ELSE NTP_ERROR_NETWORK

\* the status of each return path: lines 163, 172, 178, 188, 197, 208 and 218
\* return NTP_ERROR_NETWORK, line 211 NTP_ERROR_TIMEOUT, line 228 NTP_OK
StageStatus(stage) ==
    IF stage = "done" THEN NTP_OK
    ELSE IF stage = "timeout" THEN NTP_ERROR_TIMEOUT
    ELSE NTP_ERROR_NETWORK

\* a resolution failure that leaves the socket open
ClosesSocketButResolve(stage) == stage \notin {"socket", "resolve_hostname"}

\* close(sockfd) is called on every return path but that of line 163, where
\* no socket was created: lines 171, 177, 187, 196, 207, 210, 217 and 227
ClosesSocket(stage) == stage # "socket"

\* send_ntp_request has returned by the return path of stage; the socket it
\* had created is closed where that path closes it
Returned(request, stage) ==
    [request EXCEPT
        !.stage = stage,
        !.sockfd = IF stage = "socket" THEN "none"
                   ELSE IF ClosesSocket(stage) THEN "closed" ELSE "open",
        !.closes = IF ClosesSocket(stage) THEN 1 ELSE 0]

\* sizeof(ntp_packet_t): 4 bytes, then 11 words of 4 bytes
PACKET_SIZE == 4 + (11 * 4)

\* the byte counts recvfrom returns: those of datagrams that end before
\* li_vn_mode, before stratum, before and after tx_timestamp_sec, and of a
\* whole packet
EnvLengths == IF env = "short" THEN {0, 1, 2, 40, 44, PACKET_SIZE} ELSE {PACKET_SIZE}

\* ntp_packet_t response;  (line 268) is not initialized: what the buffer
\* holds where recvfrom does not store a byte (where every byte read later
\* is stored, the value makes no difference)
EnvGarbage ==
    IF env = "short"
    THEN {NoResponse, Packet(ModeServer, 1, TxB)}
    ELSE {NoResponse}

\* recvfrom(sockfd, response, sizeof(ntp_packet_t), ...) returning received:
\* the first received bytes of the datagram are stored over the buffer;
\* li_vn_mode is byte 0, stratum byte 1, tx_timestamp_sec bytes 40 .. 43
recvfrom(buffer, datagram, received) ==
    [li_vn_mode |-> IF received >= 1
                    THEN datagram.li_vn_mode ELSE buffer.li_vn_mode,
     stratum |-> IF received >= 2 THEN datagram.stratum ELSE buffer.stratum,
     tx_timestamp_sec |-> IF received >= 44
                          THEN datagram.tx_timestamp_sec
                          ELSE buffer.tx_timestamp_sec]

send_ntp_request_send(t) ==
    /\ frame[t].pc = "sync_request"
    /\ LET request == [NoRequest EXCEPT
                          !.server_name = Ptr(client_state.config.server_name)]
       IN  \/ \E failed \in SendStages :
                 /\ frame' = [frame EXCEPT
                                 ![t].pc = "sync_returned",
                                 ![t].status = StageStatus(failed),
                                 ![t].request = Returned(request, failed)]
                 /\ hist' = [hist EXCEPT ![t].exch =
                                 Append(@, Exchanged(StageStatus(failed),
                                                     NoResponse))]
           \/ /\ frame' = [frame EXCEPT
                              ![t].pc = "sync_wait",
                              ![t].request =
                                  [request EXCEPT !.stage = "select",
                                                  !.sockfd = "open",
                                                  !.sent = 1]]
              /\ UNCHANGED hist
    /\ UNCHANGED <<client_state, mutex, ticks, env, pre, tag>>

\* send_ntp_request, lines 204-229: select fails, times out, or a datagram
\* is there; recvfrom fails or stores the bytes it received in the response
\* buffer, of which li_vn_mode, stratum and the transmit seconds (after
\* ntohl) are read later.
send_ntp_request_recv(t) ==
    /\ frame[t].pc = "sync_wait"
    /\ \/ \E failed \in RecvFailures :
             /\ frame' = [frame EXCEPT
                             ![t].pc = "sync_returned",
                             ![t].status = StageStatus(failed),
                             ![t].request = Returned(@, failed)]
             /\ hist' = [hist EXCEPT ![t].exch =
                             Append(@, Exchanged(StageStatus(failed),
                                                 NoResponse))]
       \/ /\ frame' = [frame EXCEPT
                          ![t].pc = "sync_returned",
                          ![t].status = StageStatus("timeout"),
                          ![t].request = Returned(@, "timeout")]
          /\ hist' = [hist EXCEPT ![t].exch =
                          Append(@, Exchanged(StageStatus("timeout"), NoResponse))]
       \/ \E datagram \in EnvResponses : \E received \in EnvLengths :
          \E garbage \in EnvGarbage :
             LET response == recvfrom(garbage, datagram, received)
             IN  /\ frame' = [frame EXCEPT
                                 ![t].pc = "sync_returned",
                                 ![t].status = StageStatus("done"),
                                 ![t].response = response,
                                 ![t].request =
                                     [Returned(@, "done") EXCEPT
                                         !.received = received]]
                 /\ hist' = [hist EXCEPT ![t].exch =
                                 Append(@, Exchanged(StageStatus("done"), response))]
    /\ UNCHANGED <<client_state, mutex, ticks, env, pre, tag>>

\* a loop that goes on whatever the exchange returned
RetryWhileAttemptsLeft(status, attempts) ==
    attempts < client_state.config.retry_count

\* the loop condition of lines 293 and 298
RetryWanted(status, attempts) ==
    status # NTP_OK /\ attempts < client_state.config.retry_count

\* the validation of lines 305-315
ResponseAccepted(response) ==
    ModeAccepted(response.li_vn_mode) /\ StratumAccepted(response.stratum)

\* a failure exit that marks the client unsynced
sync_fail_unsynced(t, status) ==
    /\ mutex' = Unlocked(mutex, t)
    /\ pre' = [pre EXCEPT ![t] = NULL]
    /\ frame' = [frame EXCEPT ![t] = Return("ntp_sync", status)]
    /\ client_state' = [client_state EXCEPT !.ever_synced = FALSE]
    /\ UNCHANGED <<tag, hist>>

\* the failure exits of lines 300-303, 306-310 and 312-315: unlock and return
\* the status
sync_fail(t, status) ==
    /\ mutex' = Unlocked(mutex, t)
    /\ pre' = [pre EXCEPT ![t] = NULL]
    /\ frame' = [frame EXCEPT ![t] = Return("ntp_sync", status)]
    /\ UNCHANGED <<client_state, tag, hist>>

\* lines 290-325, from the return of send_ntp_request: attempts++; a failed
\* exchange with retries left unlocks and sleeps; a failed exchange without
\* returns its status; a response that fails the validation returns
\* NTP_ERROR_SERVER; otherwise server_time and the local current_time are
\* taken and time_offset is written.
ntp_sync_returned(t) ==
    /\ frame[t].pc = "sync_returned"
    /\ LET attempts == frame[t].attempts + 1
           status == frame[t].status
           response == frame[t].response
           server_time == ntp_time_to_unix_time(response.tx_timestamp_sec)
           current_time == tv_sec
       IN  IF RetryWanted(status, attempts)
           THEN /\ mutex' = Unlocked(mutex, t)
                /\ pre' = [pre EXCEPT ![t] = NULL]
                /\ frame' = [frame EXCEPT ![t].pc = "sync_sleep",
                                          ![t].attempts = attempts,
                                          ![t].request = NoRequest]
                /\ hist' = [hist EXCEPT ![t].pauses = @ + 1]
                /\ UNCHANGED <<client_state, tag>>
           ELSE IF status # NTP_OK
           THEN sync_fail(t, status)
           ELSE IF ~ResponseAccepted(response)
           THEN sync_fail(t, NTP_ERROR_SERVER)
           ELSE /\ client_state' =
                      [client_state EXCEPT
                          !.time_offset = BigSub(server_time, current_time)]
                /\ tag' = [tag EXCEPT !.offset = t]
                /\ frame' = [frame EXCEPT ![t].pc = "sync_commit",
                                          ![t].attempts = attempts,
                                          ![t].request = NoRequest,
                                          ![t].server_time = server_time,
                                          ![t].current_time = current_time]
                /\ UNCHANGED <<mutex, pre, hist>>
    /\ UNCHANGED <<ticks, env>>

\* lines 295-303: the sleep ends, the lock is taken again and the loop
\* condition is evaluated on the configuration as it is now.
ntp_sync_wake(t) ==
    /\ frame[t].pc = "sync_sleep"
    /\ Lockable
    /\ IF RetryWanted(frame[t].status, frame[t].attempts)
       THEN /\ \E m \in LockOutcomes(t) : mutex' = m
            /\ pre' = [pre EXCEPT ![t] = Ptr(client_state)]
            /\ frame' = [frame EXCEPT ![t].pc = "sync_request"]
            /\ UNCHANGED hist
            /\ UNCHANGED <<client_state, tag>>
       ELSE sync_fail(t, frame[t].status)
    /\ UNCHANGED <<ticks, env>>

\* the commit without the assignment of line 328
ntp_sync_commit_but_ntp_time(t) ==
    /\ frame[t].pc = "sync_commit"
    /\ client_state' =
          [client_state EXCEPT !.last_sync_time = frame[t].current_time,
                               !.ever_synced = TRUE]
    /\ tag' = [tag EXCEPT !.last = t,
                          !.server = Ptr(client_state.config.server_name)]
    /\ mutex' = Unlocked(mutex, t)
    /\ pre' = [pre EXCEPT ![t] = NULL]
    /\ frame' = [frame EXCEPT ![t] = Return("ntp_sync", NTP_OK)]
    /\ UNCHANGED <<ticks, env, hist>>

\* lines 327-334: last_sync_time, ntp_time and ever_synced are written, the
\* lock is released and NTP_OK returned.
ntp_sync_commit(t) ==
    /\ frame[t].pc = "sync_commit"
    /\ client_state' =
          [client_state EXCEPT !.last_sync_time = frame[t].current_time,
                               !.ntp_time = frame[t].server_time,
                               !.ever_synced = TRUE]
    /\ tag' = [tag EXCEPT !.last = t,
                          !.server = Ptr(client_state.config.server_name)]
    /\ mutex' = Unlocked(mutex, t)
    /\ pre' = [pre EXCEPT ![t] = NULL]
    /\ frame' = [frame EXCEPT ![t] = Return("ntp_sync", NTP_OK)]
    /\ UNCHANGED <<ticks, env, hist>>

(***************************************************************************)
(* The readers and ntp_setServer: the critical section of each takes no    *)
(* other lock and makes no blocking call; it is one step.                  *)
(***************************************************************************)
\* the test without its first half
NeverSyncedFlagOnly == ~client_state.ever_synced

\* !client_state.initialized || !client_state.ever_synced
NeverSynced == ~client_state.initialized \/ ~client_state.ever_synced

\* lines 337-358
ntp_getCurrentTime(t) ==
    /\ Entering(t, "ntp_getCurrentTime")
    /\ frame' = [frame EXCEPT ![t] =
                    ReturnValue("ntp_getCurrentTime",
                                IF NeverSynced
                                THEN BigZero
                                ELSE BigAdd(tv_sec, client_state.time_offset))]
    /\ hist' = [hist EXCEPT ![t] = NoHist]
    /\ UNCHANGED <<client_state, mutex, ticks, env, pre, tag>>

\* the operands swapped
TimeUntil(now, last_sync_time) == BigSub(last_sync_time, now)

\* line 376: current_time.tv_sec - client_state.last_sync_time
TimeSince(now, last_sync_time) == BigSub(now, last_sync_time)

\* lines 360-381
ntp_getTimeSinceLastSync(t) ==
    /\ Entering(t, "ntp_getTimeSinceLastSync")
    /\ frame' = [frame EXCEPT ![t] =
                    ReturnValue("ntp_getTimeSinceLastSync",
                                IF NeverSynced
                                THEN BigOfInt(-1)
                                ELSE TimeSince(tv_sec,
                                               client_state.last_sync_time))]
    /\ hist' = [hist EXCEPT ![t] = NoHist]
    /\ UNCHANGED <<client_state, mutex, ticks, env, pre, tag>>

(***************************************************************************)
(* ntp_getCurrentTimeWithMicros and ntp_getCurrentHundredths.  A double d  *)
(* is kept as [sec, usec] with d = sec + usec / 1000000, sec a wide        *)
(* integer and 0 <= usec < 1000000: the sums of lines 452-453 are exact to  *)
(* well below a microsecond for every time_t within 2^52 of zero.          *)
(***************************************************************************)
Mega == 1000 * 1000

\* lines 437-458: 0.0 when never synced, otherwise
\* (double)tv_sec + (double)tv_usec / 1000000.0 + (double)time_offset
ntp_getCurrentTimeWithMicros(usec) ==
    IF NeverSynced
    THEN [sec |-> BigZero, usec |-> 0]
    ELSE [sec |-> BigAdd(tv_sec, client_state.time_offset), usec |-> usec]

\* line 473: d - (double)(long)d in microseconds; the cast truncates
\* towards zero, so the difference has the sign of d
FractionalMicros(d) ==
    IF BigLess(d.sec, BigZero) /\ d.usec > 0 THEN d.usec - Mega ELSE d.usec

\* line 476: (int)(fractional_part * 100.0) % 100; the cast truncates towards
\* zero and % keeps the sign of its left operand
Hundredths(micros) ==
    IF micros < 0
    THEN 0 - (((0 - micros) \div (Mega \div 100)) % 100)
    ELSE (micros \div (Mega \div 100)) % 100

\* lines 460-479; the lock is taken and released inside
\* ntp_getCurrentTimeWithMicros
ntp_getCurrentHundredths(t, usec) ==
    /\ Entering(t, "ntp_getCurrentHundredths")
    /\ LET time_with_micros == ntp_getCurrentTimeWithMicros(usec)
       IN  frame' = [frame EXCEPT ![t] =
              ReturnValue("ntp_getCurrentHundredths",
                  IF time_with_micros = [sec |-> BigZero, usec |-> 0]
                  THEN BigZero
                  ELSE BigOfInt(Hundredths(FractionalMicros(time_with_micros))))]
    /\ hist' = [hist EXCEPT ![t] = NoHist]
    /\ UNCHANGED <<client_state, mutex, ticks, env, pre, tag>>

\* lines 383-403; buffer is NULL or points to the caller's buffer, of which
\* frame[t].buffer keeps the bytes the call stored in it, from its start
\* (NULL: nothing)
ntp_getServerName(t, buffer, buffer_size) ==
    /\ LET arg == [NoArg EXCEPT !.buffer = buffer, !.buffer_size = buffer_size]
       IN  IF buffer = NULL \/ buffer_size = 0
           THEN /\ Idle(t)
                /\ frame' = [frame EXCEPT ![t] =
                       [ReturnFlag("ntp_getServerName", FALSE) EXCEPT
                           !.arg = arg]]
           ELSE /\ Entering(t, "ntp_getServerName")
                /\ IF NeverSynced
                   THEN frame' = [frame EXCEPT ![t] =
                           [ReturnFlag("ntp_getServerName", FALSE) EXCEPT
                               !.arg = arg]]
                   ELSE frame' = [frame EXCEPT ![t] =
                           [ReturnFlag("ntp_getServerName", TRUE) EXCEPT
                               !.arg = arg,
                               !.buffer =
                                  Ptr(Terminated(strncpy_bytes(
                                         client_state.config.server_name,
                                         buffer_size - 1)))]]
    /\ hist' = [hist EXCEPT ![t] = NoHist]
    /\ UNCHANGED <<client_state, mutex, ticks, env, pre, tag>>

\* lines 405-413
ntp_hasEverSynced(t) ==
    /\ Entering(t, "ntp_hasEverSynced")
    /\ frame' = [frame EXCEPT ![t] =
                    ReturnFlag("ntp_hasEverSynced",
                               client_state.initialized
                               /\ client_state.ever_synced)]
    /\ hist' = [hist EXCEPT ![t] = NoHist]
    /\ UNCHANGED <<client_state, mutex, ticks, env, pre, tag>>

\* lines 415-435
ntp_setServer(t, server_name) ==
    /\ LET arg == [NoArg EXCEPT !.server_name = server_name]
       IN  IF server_name = NULL
           THEN /\ Idle(t)
                /\ frame' = [frame EXCEPT ![t] =
                       [Return("ntp_setServer", NTP_ERROR_INVALID_PARAM)
                           EXCEPT !.arg = arg]]
                /\ UNCHANGED client_state
           ELSE /\ Entering(t, "ntp_setServer")
                /\ IF ~client_state.initialized
                   THEN /\ frame' = [frame EXCEPT ![t] =
                               [Return("ntp_setServer", NTP_ERROR_NOT_INIT)
                                   EXCEPT !.arg = arg]]
                        /\ UNCHANGED client_state
                   ELSE /\ client_state' =
                              [client_state EXCEPT !.config.server_name =
                                  strncpy(Deref(server_name),
                                          SERVER_NAME_SIZE - 1)]
                        /\ frame' = [frame EXCEPT ![t] =
                               [Return("ntp_setServer", NTP_OK)
                                   EXCEPT !.arg = arg]]
    /\ hist' = [hist EXCEPT ![t] = NoHist]
    /\ UNCHANGED <<mutex, ticks, env, pre, tag>>

(***************************************************************************)
(* The wall clock advances (it does not go back).                          *)
(***************************************************************************)
Tick ==
    /\ ticks < EnvMaxTicks
    /\ ticks' = ticks + 1
    /\ UNCHANGED <<client_state, mutex, frame, env, hist, pre, tag, display>>

(***************************************************************************)
(* Specifications.  ntp_init and ntp_cleanup are called while no other     *)
(* thread is inside the client, as the display's main does.                *)
(***************************************************************************)
ClientInit ==
    /\ \E t \in EnvThreads : \E c \in EnvConfigs :
          Quiescent(t) /\ ntp_init(t, c)
    /\ UNCHANGED display

Cleanup ==
    /\ \E t \in EnvThreads : Quiescent(t) /\ ntp_cleanup(t)
    /\ UNCHANGED display

Blocked ==
    /\ \E t \in EnvThreads : \E name \in Calls : Block(t, name)
    /\ UNCHANGED display

SyncLock ==
    /\ \E t \in EnvThreads : ntp_sync_lock(t)
    /\ UNCHANGED display

ExchangeSend ==
    /\ \E t \in EnvThreads : send_ntp_request_send(t)
    /\ UNCHANGED display

ExchangeRecv ==
    /\ \E t \in EnvThreads : send_ntp_request_recv(t)
    /\ UNCHANGED display

SyncReturned ==
    /\ \E t \in EnvThreads : ntp_sync_returned(t)
    /\ UNCHANGED display

SyncWake ==
    /\ \E t \in EnvThreads : ntp_sync_wake(t)
    /\ UNCHANGED display

SyncCommit ==
    /\ \E t \in EnvThreads : ntp_sync_commit(t)
    /\ UNCHANGED display

GetCurrentTime ==
    /\ \E t \in EnvThreads : ntp_getCurrentTime(t)
    /\ UNCHANGED display

GetTimeSinceLastSync ==
    /\ \E t \in EnvThreads : ntp_getTimeSinceLastSync(t)
    /\ UNCHANGED display

GetServerName ==
    /\ \E t \in EnvThreads : \E b \in EnvBuffers :
          ntp_getServerName(t, b[1], b[2])
    /\ UNCHANGED display

HasEverSynced ==
    /\ \E t \in EnvThreads : ntp_hasEverSynced(t)
    /\ UNCHANGED display

SetServer ==
    /\ \E t \in EnvThreads : \E name \in EnvNames : ntp_setServer(t, name)
    /\ UNCHANGED display

Next ==
    \/ ClientInit
    \/ Cleanup
    \/ Blocked
    \/ SyncLock
    \/ ExchangeSend
    \/ ExchangeRecv
    \/ SyncReturned
    \/ SyncWake
    \/ SyncCommit
    \/ GetCurrentTime
    \/ GetTimeSinceLastSync
    \/ GetServerName
    \/ HasEverSynced
    \/ SetServer
    \/ Tick

Init == InitState("concurrent")

Spec == Init /\ [][Next]_vars

InitSeq == InitState("sequential")

NextSeq ==
    \/ ClientInit
    \/ Cleanup
    \/ SyncLock
    \/ ExchangeSend
    \/ ExchangeRecv
    \/ SyncReturned
    \/ SyncWake
    \/ SyncCommit
    \/ GetCurrentTime
    \/ GetTimeSinceLastSync
    \/ GetServerName
    \/ HasEverSynced
    \/ SetServer
    \/ Tick

SpecSeq == InitSeq /\ [][NextSeq]_vars

InitBytes == InitState("bytes")

NextBytes ==
    \/ ClientInit
    \/ SyncLock
    \/ ExchangeSend
    \/ ExchangeRecv
    \/ SyncReturned
    \/ SyncCommit

SpecBytes == InitBytes /\ [][NextBytes]_vars

GetCurrentHundredths ==
    /\ \E t \in EnvThreads : \E usec \in EnvMicros :
          ntp_getCurrentHundredths(t, usec)
    /\ UNCHANGED display

InitMicros == InitState("micros")

NextMicros ==
    \/ ClientInit
    \/ Cleanup
    \/ SyncLock
    \/ ExchangeSend
    \/ ExchangeRecv
    \/ SyncReturned
    \/ SyncCommit
    \/ GetCurrentTime
    \/ GetCurrentHundredths
    \/ Tick

SpecMicros == InitMicros /\ [][NextMicros]_vars

InitEpoch == InitState("epoch")

NextEpoch ==
    \/ ClientInit
    \/ Cleanup
    \/ SyncLock
    \/ ExchangeSend
    \/ ExchangeRecv
    \/ SyncReturned
    \/ SyncCommit
    \/ GetCurrentTime
    \/ GetCurrentHundredths
    \/ Tick

SpecEpoch == InitEpoch /\ [][NextEpoch]_vars

InitNames == InitState("names")

NextNames ==
    \/ ClientInit
    \/ Cleanup
    \/ Blocked
    \/ SyncLock
    \/ ExchangeSend
    \/ ExchangeRecv
    \/ SyncReturned
    \/ SyncCommit
    \/ GetServerName
    \/ HasEverSynced
    \/ SetServer

SpecNames == InitNames /\ [][NextNames]_vars

(***************************************************************************)
(* The conversions between Unix and NTP seconds, applied to the times near *)
(* the boundaries of their domains: tv_sec is converted for the request of *)
(* create_ntp_packet (line 102) and the seconds of the packet are          *)
(* converted back as those of a response are (line 318).                   *)
(***************************************************************************)
ConvertBases ==
    {BigZero, ClockStart, BigSub(BigZero, NTP_TIMESTAMP_DELTA),
     BigSub(UINT32_MODULUS, NTP_TIMESTAMP_DELTA), UINT32_MODULUS}

ConvertInputs ==
    {BigAdd(b, BigOfInt(k)) : b \in ConvertBases, k \in (0 - MaxSkew) .. MaxSkew}

EncodeSeconds ==
    /\ frame[1].pc = "idle"
    /\ frame' = [frame EXCEPT
                    ![1].pc = "packet",
                    ![1].call = "create_ntp_packet",
                    ![1].value = unix_time_to_ntp_time(frame[1].current_time)]
    /\ UNCHANGED <<client_state, mutex, ticks, env, hist, pre, tag, display>>

DecodeSeconds ==
    /\ frame[1].pc = "packet"
    /\ frame' = [frame EXCEPT
                    ![1].pc = "done",
                    ![1].server_time = ntp_time_to_unix_time(frame[1].value)]
    /\ UNCHANGED <<client_state, mutex, ticks, env, hist, pre, tag, display>>

InitConvert ==
    /\ client_state = StaticClientState
    /\ mutex = [state |-> "static", owner |-> {}]
    /\ ticks = 0
    /\ \E unix_seconds \in ConvertInputs :
          frame = [t \in Threads |->
                     IF t = 1
                     THEN [IdleFrame EXCEPT !.current_time = unix_seconds]
                     ELSE IdleFrame]
    /\ env = "convert"
    /\ hist = [t \in Threads |-> NoHist]
    /\ pre = [t \in Threads |-> NULL]
    /\ tag = [offset |-> NoTag, last |-> NoTag, server |-> NULL]
    /\ display = DisplayStart

NextConvert ==
    \/ EncodeSeconds
    \/ DecodeSeconds

SpecConvert == InitConvert /\ [][NextConvert]_vars

(***************************************************************************)
(* The display: main of clock_display.c, the one thread of its process.    *)
(* Its terminal output is left out; its calls into the client are the      *)
(* client's operations above, made by thread 1 in the order of main.       *)
(***************************************************************************)
\* #define DEFAULT_NTP_SERVER "pool.ntp.org"
DEFAULT_NTP_SERVER == <<"p", "o", "o", "l", ".", "n", "t", "p", ".", "o", "r", "g">>

\* lines 1016-1022: the configuration main fills in; retry_count = 3
DisplayConfig == Config(DEFAULT_NTP_SERVER, 3)

\* the literal of line 1071
SYNC_SECONDS == 7200

\* int time_since_sync = ntp_getTimeSinceLastSync();  the conversion of the
\* time_t to int
ToInt32(x) ==
    LET half == Big(2, 147483648)
    IN  BigSub(ToUint32(BigAdd(x, half)), half)

\* a test that lets the interval itself pass
SyncOverdue(time_since_sync) ==
    BigLess(BigOfInt(SYNC_SECONDS), time_since_sync)
    \/ BigLess(time_since_sync, BigZero)

\* line 1071: time_since_sync >= 7200 || time_since_sync < 0
SyncDue(time_since_sync) ==
    BigLeq(BigOfInt(SYNC_SECONDS), time_since_sync)
    \/ BigLess(time_since_sync, BigZero)

At(pc) == display.pc = pc

Goto(pc) == display' = [display EXCEPT !.pc = pc]

\* lines 1025-1029: ntp_init(&config); a failure is printed and main goes on
MainInit ==
    /\ At("init")
    /\ ntp_init(1, Ptr(DisplayConfig))
    /\ Goto("set_server")

\* line 1032
MainSetServer ==
    /\ At("set_server")
    /\ ntp_setServer(1, Ptr(DEFAULT_NTP_SERVER))
    /\ Goto("sync_name")

\* sync_with_ntp, lines 957-961: the server name for the message
SyncWithNtpName ==
    /\ At("sync_name")
    /\ ntp_getServerName(1, Ptr("buffer"), SERVER_NAME_SIZE)
    /\ Goto("sync_call")

\* sync_with_ntp, line 966: ntp_sync() is called
SyncWithNtpCall ==
    /\ At("sync_call")
    /\ ntp_sync_lock(1)
    /\ display' = [display EXCEPT
                      !.pc = "syncing",
                      !.startup_syncs =
                          IF display.at = "startup" THEN @ + 1 ELSE @]

\* sync_with_ntp, lines 967-976: ntp_sync has returned, the result is
\* printed; at startup main goes on to its loop (line 1055), in the loop to
\* the second reading of the time (line 1082)
SyncWithNtpReturn ==
    /\ At("syncing")
    /\ frame[1].pc = "done"
    /\ display' = [display EXCEPT
                      !.pc = IF display.at = "startup"
                             THEN "loop_time" ELSE "draw_time",
                      !.at = "loop"]
    /\ UNCHANGED <<client_state, mutex, ticks, frame, env, hist, pre, tag>>

\* line 1067
LoopTime ==
    /\ At("loop_time")
    /\ ntp_getCurrentTime(1)
    /\ Goto("loop_since")

\* lines 1068-1076: time_since_sync is read and tested
LoopSince ==
    /\ At("loop_since")
    /\ ntp_getTimeSinceLastSync(1)
    /\ LET time_since_sync == ToInt32(frame'[1].value)
       IN  display' = [display EXCEPT
                         !.time_since_sync = time_since_sync,
                         !.pc = IF SyncDue(time_since_sync)
                                THEN "sync_name" ELSE "draw_time"]

\* line 1082
DrawTime ==
    /\ At("draw_time")
    /\ ntp_getCurrentTime(1)
    /\ Goto("draw_since")

\* line 1083
DrawSince ==
    /\ At("draw_since")
    /\ ntp_getTimeSinceLastSync(1)
    /\ display' = [display EXCEPT
                      !.time_since_sync = ToInt32(frame'[1].value),
                      !.pc = "draw_clock"]

\* line 1086, draw_full_clock: the hundredths of line 341
DrawClock ==
    /\ At("draw_clock")
    /\ \E usec \in EnvMicros : ntp_getCurrentHundredths(1, usec)
    /\ Goto("draw_status")

\* line 1087, direct_draw_status_bar: the hundredths of line 702
DrawStatus ==
    /\ At("draw_status")
    /\ \E usec \in EnvMicros : ntp_getCurrentHundredths(1, usec)
    /\ Goto("draw_name")

\* direct_draw_status_bar: the server name of line 710; then usleep (line
\* 1090) and the next iteration
DrawName ==
    /\ At("draw_name")
    /\ ntp_getServerName(1, Ptr("buffer"), SERVER_NAME_SIZE)
    /\ Goto("loop_time")

\* handle_sigint, lines 250-262: exit(0) wherever main is
Sigint ==
    /\ ~At("exited")
    /\ display' = [display EXCEPT !.pc = "exited", !.sigint = TRUE]
    /\ UNCHANGED <<client_state, mutex, ticks, frame, env, hist, pre, tag>>

\* ntp_sync goes on while main waits for it to return
Syncing == At("syncing")

InitDisplay == InitState("display")

NextDisplay ==
    \/ MainInit
    \/ MainSetServer
    \/ SyncWithNtpName
    \/ SyncWithNtpCall
    \/ Syncing /\ ExchangeSend
    \/ Syncing /\ ExchangeRecv
    \/ Syncing /\ SyncReturned
    \/ Syncing /\ SyncWake
    \/ Syncing /\ SyncCommit
    \/ SyncWithNtpReturn
    \/ LoopTime
    \/ LoopSince
    \/ DrawTime
    \/ DrawSince
    \/ DrawClock
    \/ DrawStatus
    \/ DrawName
    \/ Sigint
    \/ Tick

SpecDisplay == InitDisplay /\ [][NextDisplay]_vars

InitShort == InitState("short")

NextShort ==
    \/ ClientInit
    \/ SyncLock
    \/ ExchangeSend
    \/ ExchangeRecv
    \/ SyncReturned
    \/ SyncCommit

SpecShort == InitShort /\ [][NextShort]_vars

(***************************************************************************)
(* Progress.  A thread inside ntp_sync that does not wait goes on: each    *)
(* system call of send_ntp_request returns (select after timeout_ms at the *)
(* latest), usleep ends, and the statements between them are executed      *)
(* (weak fairness).  pthread_mutex_lock returns to a thread that waits for *)
(* the lock if the lock is free again and again (strong fairness): the     *)
(* lock is taken by no thread for ever, and a waiter is not passed over    *)
(* for ever.                                                               *)
(***************************************************************************)
\* thread t waits in the pthread_mutex_lock of the operation it has called
Waiting(t) == frame[t].pc \in Calls

\* thread t goes on inside ntp_sync while it holds the lock
Proceed(t) ==
    /\ \/ send_ntp_request_send(t)
       \/ send_ntp_request_recv(t)
       \/ ntp_sync_returned(t)
       \/ ntp_sync_commit(t)
    /\ UNCHANGED display

\* pthread_mutex_lock returns to thread t: after the pause of ntp_sync
\* (line 296), or in the operation it has called
Acquire(t) ==
    /\ \/ ntp_sync_wake(t)
       \/ /\ Waiting(t)
          /\ \/ ntp_sync_lock(t)
             \/ ntp_getCurrentTime(t)
             \/ ntp_getTimeSinceLastSync(t)
             \/ \E b \in EnvBuffers : ntp_getServerName(t, b[1], b[2])
             \/ ntp_hasEverSynced(t)
             \/ \E name \in EnvNames : ntp_setServer(t, name)
    /\ UNCHANGED display

Fairness ==
    \A t \in Threads : WF_vars(Proceed(t)) /\ SF_vars(Acquire(t))

InitLive == InitState("live")

NextLive ==
    \/ ClientInit
    \/ Blocked
    \/ SyncLock
    \/ ExchangeSend
    \/ ExchangeRecv
    \/ SyncReturned
    \/ SyncWake
    \/ SyncCommit
    \/ GetCurrentTime
    \/ GetTimeSinceLastSync
    \/ GetServerName
    \/ HasEverSynced
    \/ SetServer

SpecLive == InitLive /\ [][NextLive]_vars /\ Fairness

(***************************************************************************)
(* The operations called in any order by any thread: ntp_init and          *)
(* ntp_cleanup also while another thread is inside the client.  ntp_init   *)
(* then calls pthread_mutex_init on a mutex that is initialized already,   *)
(* and maybe locked, which is undefined: the call fails (ntp_init returns  *)
(* NTP_ERROR_NETWORK) or makes the mutex a new, unlocked one.              *)
(***************************************************************************)
ClientInitAnyTime ==
    /\ \E t \in EnvThreads : \E c \in EnvConfigs : ntp_init(t, c)
    /\ UNCHANGED display

CleanupAnyTime ==
    /\ \E t \in EnvThreads : ntp_cleanup(t)
    /\ UNCHANGED display

InitAnyOrder == InitState("anyorder")

NextAnyOrder ==
    \/ ClientInitAnyTime
    \/ CleanupAnyTime
    \/ SyncLock
    \/ ExchangeSend
    \/ ExchangeRecv
    \/ SyncReturned
    \/ SyncWake
    \/ SyncCommit
    \/ GetCurrentTime
    \/ SetServer

SpecAnyOrder == InitAnyOrder /\ [][NextAnyOrder]_vars

\* the process before its teardown: ntp_cleanup is not called
NextRunning ==
    \/ ClientInit
    \/ Blocked
    \/ SyncLock
    \/ ExchangeSend
    \/ ExchangeRecv
    \/ SyncReturned
    \/ SyncCommit
    \/ GetServerName
    \/ HasEverSynced
    \/ SetServer

SpecRunning == InitNames /\ [][NextRunning]_vars

(***************************************************************************)
(* Vocabulary of the properties.                                           *)
(***************************************************************************)
Exch(t) == hist[t].exch

\* the exchanges the invocation has made or is in
Attempted(t) == Len(Exch(t)) + (IF frame[t].pc = "sync_wait" THEN 1 ELSE 0)

\* the exchanges of the invocation that failed
Failures(t) ==
    Cardinality({i \in 1 .. Len(Exch(t)) : Exch(t)[i].status # NTP_OK})

\* ntp_sync has returned to thread t, which has made no call since
SyncDone(t) == frame[t].pc = "done" /\ frame[t].call = "ntp_sync"

\* the rule of the specification: mode 4 or 2 and stratum 1 .. 15
ValidResponse(r) ==
    /\ (r.li_vn_mode % 8) \in {4, 2}
    /\ r.stratum \in 1 .. 15

LastExchange(t) == Exch(t)[Len(Exch(t))]

Readers ==
    {"ntp_getCurrentTime", "ntp_getTimeSinceLastSync", "ntp_getServerName",
     "ntp_hasEverSynced"}

\* this step is a step of thread t
StepOf(t) == frame'[t] # frame[t]

(***************************************************************************)
(* C1.  While a sync is inside send_ntp_request the clock-state lock is    *)
(* free, and no reader waits for the lock.                                 *)
(* The code takes the lock at line 274 and holds it across the call of     *)
(* line 283: TLC finds this violated.                                      *)
(***************************************************************************)
C1_LockFreeDuringExchange ==
    \A t \in Threads :
        frame[t].pc = "sync_wait" =>
            /\ mutex.owner = {}
            /\ \A u \in Threads : frame[u].pc \notin Readers

(***************************************************************************)
(* C2.  A reader that finds ever_synced set reads a time_offset and a      *)
(* last_sync_time written by one and the same ntp_sync invocation: both    *)
(* were last written by the same thread, and that thread is not between    *)
(* its two writes.                                                         *)
(***************************************************************************)
Paired ==
    /\ tag.offset # NoTag
    /\ tag.offset = tag.last
    /\ frame[tag.offset].pc # "sync_commit"

\* this step is the return of a reader to thread t from a critical section
\* in which it found the client initialized and ever_synced set
ReadSynced(t) ==
    /\ StepOf(t)
    /\ frame'[t].pc = "done"
    /\ frame'[t].call \in Readers
    /\ frame'[t].call = "ntp_getServerName" => frame'[t].flag
    /\ client_state.initialized
    /\ client_state.ever_synced

C2_AtomicCommit == [][\A t \in Threads : ReadSynced(t) => Paired]_vars

\* a reader has returned a synced value while another thread, which wrote
\* the clock state last, is syncing again
C2_Witness ==
    \E t, u \in Threads :
        /\ frame[t].pc = "done"
        /\ frame[t].call = "ntp_getTimeSinceLastSync"
        /\ frame[t].value # BigOfInt(-1)
        /\ tag.last = u
        /\ u # t
        /\ frame[u].pc = "sync_wait"

(***************************************************************************)
(* C3.  An ntp_sync invocation on an initialized client makes at most      *)
(* retry_count exchanges; when all fail it makes exactly retry_count and   *)
(* returns the status of the last.                                         *)
(* With retry_count = 0, which ntp_init stores, the do-while loop makes    *)
(* one exchange: TLC finds this violated.                                  *)
(***************************************************************************)
C3_AtMostRetryCount ==
    \A t \in Threads :
        (frame[t].call = "ntp_sync" /\ frame[t].ret # NTP_ERROR_NOT_INIT) =>
            /\ Attempted(t) <= hist[t].retry_count
            /\ (SyncDone(t) /\ Failures(t) = Len(Exch(t))) =>
                  /\ Len(Exch(t)) = hist[t].retry_count
                  /\ frame[t].ret = LastExchange(t).status
                  /\ frame[t].ret \in {NTP_ERROR_NETWORK, NTP_ERROR_TIMEOUT}

\* the same with the bound the loop has: max(1, retry_count)
C3_AtMostRetryCountOrOne ==
    \A t \in Threads :
        (frame[t].call = "ntp_sync" /\ Attempted(t) > 0) =>
            LET limit == IF hist[t].retry_count = 0
                         THEN 1 ELSE hist[t].retry_count
            IN  /\ Attempted(t) <= limit
                /\ (SyncDone(t) /\ Failures(t) = Len(Exch(t))) =>
                      /\ Len(Exch(t)) = limit
                      /\ frame[t].ret = LastExchange(t).status
                      /\ frame[t].ret \in {NTP_ERROR_NETWORK, NTP_ERROR_TIMEOUT}

(***************************************************************************)
(* C4.  When the exchange fails k times and then returns a valid response, *)
(* ntp_sync returns NTP_OK and commits exactly when k < retry_count; with  *)
(* k >= retry_count it returns the failure.                                *)
(* With retry_count = 0 and k = 0 the code commits: TLC finds this         *)
(* violated.                                                               *)
(***************************************************************************)
C4_CommitsWithinRetries ==
    \A t \in Threads :
        (SyncDone(t) /\ Len(Exch(t)) > 0) =>
            LET k == Failures(t)
                valid == /\ LastExchange(t).status = NTP_OK
                         /\ ValidResponse(LastExchange(t).response)
            IN  /\ (valid /\ k < hist[t].retry_count) =>
                      (frame[t].ret = NTP_OK /\ client_state.ever_synced)
                /\ k >= hist[t].retry_count =>
                      frame[t].ret \in {NTP_ERROR_NETWORK, NTP_ERROR_TIMEOUT}
                /\ frame[t].ret = NTP_OK => k < hist[t].retry_count

(***************************************************************************)
(* C5.  A received response is the last exchange of its invocation: no     *)
(* exchange, sleep or retry follows it.  A response that fails the         *)
(* validation makes ntp_sync return NTP_ERROR_SERVER; when the first       *)
(* exchange returns stratum 0 the invocation has made one exchange,        *)
(* whatever retry_count is.                                                *)
(***************************************************************************)
C5_ServerErrorNotRetried ==
    \A t \in Threads :
        /\ \A i \in 1 .. Len(Exch(t)) :
              Exch(t)[i].status = NTP_OK =>
                  /\ i = Len(Exch(t))
                  /\ frame[t].pc \notin {"sync_request", "sync_wait", "sync_sleep"}
        /\ (SyncDone(t) /\ Len(Exch(t)) > 0
              /\ LastExchange(t).status = NTP_OK
              /\ ~ValidResponse(LastExchange(t).response))
           => frame[t].ret = NTP_ERROR_SERVER
        /\ (SyncDone(t) /\ Len(Exch(t)) > 0
              /\ Exch(t)[1].status = NTP_OK
              /\ Exch(t)[1].response.stratum = 0)
           => (Len(Exch(t)) = 1 /\ frame[t].ret = NTP_ERROR_SERVER)

\* stratum 0 at the first exchange of a client configured for more retries
C5_Witness ==
    \E t \in Threads :
        /\ SyncDone(t)
        /\ hist[t].retry_count > 2
        /\ Len(Exch(t)) = 1
        /\ Exch(t)[1].status = NTP_OK
        /\ Exch(t)[1].response.stratum = 0
        /\ frame[t].ret = NTP_ERROR_SERVER

(***************************************************************************)
(* C6.  ntp_sync commits a response only if its mode (li_vn_mode mod 8) is *)
(* 4 or 2 and its stratum is in 1 .. 15: a received response that is valid *)
(* goes on to the commit, which returns NTP_OK with ever_synced set; every *)
(* other response returns NTP_ERROR_SERVER with the clock state unchanged; *)
(* and nothing but ntp_init and the commit of a valid response changes     *)
(* ever_synced, time_offset, last_sync_time or ntp_time.                   *)
(***************************************************************************)
ClockFields ==
    <<client_state.ever_synced, client_state.time_offset,
      client_state.last_sync_time, client_state.ntp_time>>

C6_CommitsOnlyValidResponse ==
    [][/\ \A t \in Threads :
            /\ (StepOf(t) /\ frame[t].pc = "sync_returned"
                  /\ frame[t].status = NTP_OK)
               => IF ValidResponse(frame[t].response)
                  THEN frame'[t].pc = "sync_commit"
                  ELSE /\ frame'[t].pc = "done"
                       /\ frame'[t].ret = NTP_ERROR_SERVER
                       /\ client_state' = client_state
            /\ (StepOf(t) /\ frame[t].pc = "sync_commit")
               => /\ frame'[t].pc = "done"
                  /\ frame'[t].ret = NTP_OK
                  /\ client_state'.ever_synced
       /\ ClockFields' # ClockFields =>
            \E t \in Threads :
                /\ StepOf(t)
                /\ \/ frame'[t].call = "ntp_init"
                   \/ /\ frame[t].pc \in {"sync_returned", "sync_commit"}
                      /\ frame[t].status = NTP_OK
                      /\ ValidResponse(frame[t].response)]_vars

\* a server-mode response of stratum 16 was refused
C6_Witness ==
    \E t \in Threads :
        /\ SyncDone(t)
        /\ frame[t].ret = NTP_ERROR_SERVER
        /\ LastExchange(t).response.stratum = NTP_STRATUM_MAX
        /\ LastExchange(t).response.li_vn_mode = ModeServer
        /\ ~client_state.ever_synced

(***************************************************************************)
(* C7.  A successful ntp_sync reads the local clock once, after the        *)
(* response was received, and commits time_offset = server Unix time - now *)
(* and last_sync_time = now with ever_synced set; ntp_getCurrentTime then  *)
(* returns the local clock plus that offset.  Server Unix time 1700000000  *)
(* at local 1699999995 commits offset 5, and ntp_getCurrentTime at local   *)
(* 1699999999 returns 1700000004.                                          *)
(***************************************************************************)
\* the Unix time of the transmit seconds of the responses
UnixOf(tx) == IF tx = TxA THEN Big(1, 700000000) ELSE Big(1, 699999990)

C7_CommitsOffset ==
    [][\A t \in Threads :
          /\ (StepOf(t) /\ frame'[t].pc = "sync_commit")
             => /\ frame'[t].current_time = tv_sec
                /\ BigAdd(client_state'.time_offset, tv_sec)
                      = UnixOf(frame[t].response.tx_timestamp_sec)
          /\ (StepOf(t) /\ frame[t].pc = "sync_commit")
             => /\ frame'[t].ret = NTP_OK
                /\ client_state'.ever_synced
                /\ client_state'.last_sync_time = frame[t].current_time
                /\ client_state'.ntp_time
                      = UnixOf(frame[t].response.tx_timestamp_sec)
                /\ BigAdd(client_state'.time_offset,
                          client_state'.last_sync_time)
                      = UnixOf(frame[t].response.tx_timestamp_sec)
          /\ (StepOf(t) /\ frame'[t].pc = "done"
                /\ frame'[t].call = "ntp_getCurrentTime"
                /\ client_state.initialized /\ client_state.ever_synced)
             => frame'[t].value = BigAdd(tv_sec, client_state.time_offset)]_vars

C7_Witness ==
    \E t \in Threads :
        /\ frame[t].pc = "done"
        /\ frame[t].call = "ntp_getCurrentTime"
        /\ client_state.ever_synced
        /\ client_state.last_sync_time = Big(1, 699999995)
        /\ client_state.ntp_time = Big(1, 700000000)
        /\ client_state.time_offset = BigOfInt(5)
        /\ tv_sec = Big(1, 699999999)
        /\ frame[t].value = Big(1, 700000004)

(***************************************************************************)
(* C8.  An ntp_sync that does not return NTP_OK leaves client_state        *)
(* (ever_synced, time_offset, last_sync_time, ntp_time, configuration) as  *)
(* it found it: each of its critical sections, the one before a retry      *)
(* pause and the one it returns from, ends with client_state as it was     *)
(* when the lock was taken.                                                *)
(***************************************************************************)
C8_FailedSyncChangesNothing ==
    [][\A t \in Threads :
          /\ (StepOf(t) /\ frame'[t].pc = "done"
                /\ frame'[t].call = "ntp_sync" /\ frame'[t].ret # NTP_OK)
             => /\ client_state' = client_state
                /\ pre[t] # NULL => client_state' = Deref(pre[t])
          /\ (StepOf(t) /\ frame'[t].pc = "sync_sleep")
             => client_state' = Deref(pre[t])]_vars

\* a sync timed out after an earlier one had committed offset 5: the
\* committed values are still there
C8_Witness ==
    \E t \in Threads :
        /\ SyncDone(t)
        /\ frame[t].ret = NTP_ERROR_TIMEOUT
        /\ client_state.ever_synced
        /\ client_state.time_offset = BigOfInt(5)
        /\ client_state.last_sync_time = ClockStart

(***************************************************************************)
(* C9.  ntp_getCurrentTime returns 0 when the client is uninitialized or   *)
(* has never synced, and the local clock's seconds plus the committed      *)
(* offset otherwise.                                                       *)
(***************************************************************************)
C9_CurrentTime ==
    [][\A t \in Threads :
          (StepOf(t) /\ frame'[t].pc = "done"
             /\ frame'[t].call = "ntp_getCurrentTime")
          => /\ frame'[t].ret = "value"
             /\ frame'[t].value =
                   IF ~client_state.initialized \/ ~client_state.ever_synced
                   THEN BigZero
                   ELSE BigAdd(BigAdd(ClockStart, BigOfInt(ticks)),
                               client_state.time_offset)]_vars

\* 0 was returned after ntp_cleanup by a client that had synced
C9_Witness ==
    \E t \in Threads :
        /\ frame[t].pc = "done"
        /\ frame[t].call = "ntp_getCurrentTime"
        /\ frame[t].value = BigZero
        /\ ~client_state.initialized
        /\ client_state.ever_synced

(***************************************************************************)
(* C10.  ntp_getTimeSinceLastSync returns -1 before any successful sync    *)
(* and local_now - last_sync_time afterwards, which is never negative      *)
(* while the clock does not go back, and is 0 or 1 when the clock has      *)
(* advanced by at most one second since the sync.                          *)
(***************************************************************************)
C10_TimeSinceLastSync ==
    [][\A t \in Threads :
          (StepOf(t) /\ frame'[t].pc = "done"
             /\ frame'[t].call = "ntp_getTimeSinceLastSync")
          => IF ~client_state.initialized \/ ~client_state.ever_synced
             THEN frame'[t].value = BigOfInt(-1)
             ELSE /\ BigAdd(frame'[t].value, client_state.last_sync_time)
                        = BigAdd(ClockStart, BigOfInt(ticks))
                  /\ BigLeq(BigZero, frame'[t].value)
                  /\ BigLeq(BigAdd(ClockStart, BigOfInt(ticks)),
                            BigAdd(client_state.last_sync_time, BigOfInt(1)))
                     => frame'[t].value \in {BigOfInt(0), BigOfInt(1)}]_vars

\* one second after a sync, 1 was returned
C10_Witness ==
    \E t \in Threads :
        /\ frame[t].pc = "done"
        /\ frame[t].call = "ntp_getTimeSinceLastSync"
        /\ frame[t].value = BigOfInt(1)
        /\ client_state.ever_synced
        /\ BigAdd(client_state.last_sync_time, BigOfInt(1)) = tv_sec

(***************************************************************************)
(* C11.  ntp_getCurrentHundredths returns a value in 0 .. 99 in every      *)
(* synced state, for every committed offset and clock reading, and 0 when  *)
(* the client never synced.                                                *)
(* A response with transmit seconds below NTP_TIMESTAMP_DELTA commits an   *)
(* offset that makes the adjusted time negative; its fractional part is    *)
(* negative then and so is the value returned: TLC finds this violated.    *)
(***************************************************************************)
HundredthsDone(t) ==
    frame[t].pc = "done" /\ frame[t].call = "ntp_getCurrentHundredths"

C11_HundredthsInRange ==
    \A t \in Threads :
        HundredthsDone(t) =>
            /\ BigLeq(BigZero, frame[t].value)
            /\ BigLeq(frame[t].value, BigOfInt(99))
            /\ NeverSynced => frame[t].value = BigZero

(***************************************************************************)
(* Vocabulary of the properties about names.                               *)
(***************************************************************************)
Min(a, b) == IF a < b THEN a ELSE b

Prefix(name, n) == SubSeq(name, 1, Min(Len(name), n))

HasNul(bytes) == \E i \in 1 .. Len(bytes) : bytes[i] = NUL

\* the C string a reader of the bytes finds: the characters before the
\* first NUL
CString(bytes) ==
    LET k == CHOOSE k \in 0 .. Len(bytes) :
                 /\ \A i \in 1 .. k : bytes[i] # NUL
                 /\ k = Len(bytes) \/ bytes[k + 1] = NUL
    IN  SubSeq(bytes, 1, k)

\* this step is the return of ntp_getServerName to thread t
ServerNameReturns(t) ==
    /\ StepOf(t)
    /\ frame'[t].pc = "done"
    /\ frame'[t].call = "ntp_getServerName"

\* what the claim says the call does, for the state it found
ServerNameAsClaimed(t) ==
    IF ~client_state.initialized \/ ~client_state.ever_synced
    THEN /\ ~frame'[t].flag
         /\ frame'[t].buffer = NULL
    ELSE /\ frame'[t].flag
         /\ frame'[t].buffer # NULL
         /\ Len(Deref(frame'[t].buffer)) <= frame'[t].arg.buffer_size
         /\ HasNul(Deref(frame'[t].buffer))
         /\ CString(Deref(frame'[t].buffer))
               = Prefix(client_state.config.server_name,
                        frame'[t].arg.buffer_size - 1)

(***************************************************************************)
(* C12, as stated.  ntp_getServerName returns false and leaves the buffer  *)
(* unmodified when the client is uninitialized or never synced; otherwise  *)
(* it returns true and the buffer holds the NUL-terminated prefix of the   *)
(* configured name of length min(len(name), buffer_size - 1), within        *)
(* buffer_size bytes.                                                      *)
(* On a synced client a call with a NULL buffer or buffer_size 0 returns   *)
(* false (lines 385-387): TLC finds this violated.                         *)
(***************************************************************************)
C12_ServerNameAsStated ==
    [][\A t \in Threads : ServerNameReturns(t) => ServerNameAsClaimed(t)]_vars

(***************************************************************************)
(* C12, amended.  Called with a non-NULL buffer and buffer_size >= 1,      *)
(* ntp_getServerName returns false and leaves the buffer unmodified when   *)
(* the client is uninitialized or never synced, and otherwise returns true *)
(* with the buffer holding the NUL-terminated prefix of the configured     *)
(* name of length min(len(name), buffer_size - 1), within buffer_size      *)
(* bytes; called with a NULL buffer or buffer_size 0 it returns false and  *)
(* stores nothing.                                                         *)
(***************************************************************************)
C12_ServerNameCopy ==
    [][\A t \in Threads :
          ServerNameReturns(t) =>
              IF frame'[t].arg.buffer = NULL \/ frame'[t].arg.buffer_size = 0
              THEN ~frame'[t].flag /\ frame'[t].buffer = NULL
              ELSE ServerNameAsClaimed(t)]_vars

\* the two-character name was copied into a buffer of two bytes: one
\* character and the terminator
C12_Witness ==
    \E t \in Threads :
        /\ frame[t].pc = "done"
        /\ frame[t].call = "ntp_getServerName"
        /\ frame[t].flag
        /\ frame[t].arg.buffer_size = 2
        /\ client_state.config.server_name = NameB
        /\ frame[t].buffer = Ptr(<<"b", NUL>>)

(***************************************************************************)
(* C13.  Whenever ntp_getServerName returns true, the name it returns is   *)
(* the name of the server the last successful sync exchanged with.         *)
(* The call copies the configured name, which ntp_setServer replaces       *)
(* without a sync: TLC finds this violated.                                *)
(***************************************************************************)
C13_NameOfLastSyncedServer ==
    [][\A t \in Threads :
          (ServerNameReturns(t) /\ frame'[t].flag)
          => /\ tag.server # NULL
             /\ CString(Deref(frame'[t].buffer))
                   = Prefix(Deref(tag.server), frame'[t].arg.buffer_size - 1)]_vars

(***************************************************************************)
(* C14.  ntp_setServer returns NTP_ERROR_NOT_INIT and changes nothing on a *)
(* client that is not initialized; on an initialized client it replaces    *)
(* the configured server name by the argument truncated to 255 characters, *)
(* while no other thread holds the lock, changes no other field of the     *)
(* client state and makes no exchange.                                     *)
(***************************************************************************)
SetServerReturns(t) ==
    /\ StepOf(t)
    /\ frame'[t].pc = "done"
    /\ frame'[t].call = "ntp_setServer"

C14_SetServerFrame ==
    [][\A t \in Threads :
          /\ SetServerReturns(t) =>
                /\ hist'[t].exch = << >>
                /\ mutex' = mutex
                /\ IF frame'[t].arg.server_name = NULL
                   THEN client_state' = client_state
                   ELSE IF ~client_state.initialized
                   THEN /\ frame'[t].ret = NTP_ERROR_NOT_INIT
                        /\ client_state' = client_state
                   ELSE /\ frame'[t].ret = NTP_OK
                        /\ mutex.owner = {}
                        /\ Len(client_state'.config.server_name) <= 255
                        /\ client_state' =
                              [client_state EXCEPT !.config.server_name =
                                  Prefix(Deref(frame'[t].arg.server_name), 255)]
          /\ (StepOf(t) /\ frame'[t].call = "ntp_setServer")
             => frame'[t].pc \in {"done", "ntp_setServer"}]_vars

\* the long name was set on a synced client: 255 characters of it are
\* configured and the clock state is as the sync left it
C14_Witness ==
    \E t \in Threads :
        /\ frame[t].pc = "done"
        /\ frame[t].call = "ntp_setServer"
        /\ frame[t].ret = NTP_OK
        /\ frame[t].arg.server_name = Ptr(LongName)
        /\ Len(client_state.config.server_name) = 255
        /\ client_state.ever_synced
        /\ client_state.time_offset = BigOfInt(5)

(***************************************************************************)
(* C15.  Before the teardown of the process, ntp_hasEverSynced returns     *)
(* false until the first successful sync has committed, and once it has    *)
(* returned true to a caller it returns true to that caller's next call,   *)
(* whatever ntp_init, ntp_sync, ntp_setServer and reader calls were made   *)
(* in between.                                                             *)
(* A second ntp_init resets ever_synced (line 248): TLC finds this         *)
(* violated.                                                               *)
(***************************************************************************)
HasEverSyncedDone(f) == f.pc = "done" /\ f.call = "ntp_hasEverSynced"

C15_EverSyncedOnce ==
    [][\A t \in Threads :
          /\ (StepOf(t) /\ HasEverSyncedDone(frame'[t]) /\ frame'[t].flag)
             => tag.last # NoTag
          /\ (HasEverSyncedDone(frame[t]) /\ frame[t].flag
                /\ HasEverSyncedDone(frame'[t]))
             => frame'[t].flag]_vars

(***************************************************************************)
(* C16.  After ntp_init has returned NTP_OK the stored configuration has   *)
(* retry_count >= 1 and timeout_ms > 0.                                    *)
(* ntp_init copies the configuration as it is given (line 244): TLC finds  *)
(* this violated with retry_count = 0.                                     *)
(***************************************************************************)
C16_ConfigBounds ==
    \A t \in Threads :
        (frame[t].pc = "done" /\ frame[t].call = "ntp_init"
           /\ frame[t].ret = NTP_OK)
        => /\ client_state.config.retry_count >= 1
           /\ client_state.config.timeout_ms > 0

(***************************************************************************)
(* C17.  ntp_sync called on a client that is not initialized (before       *)
(* ntp_init, after a failed ntp_init or after ntp_cleanup) returns         *)
(* NTP_ERROR_NOT_INIT, makes no exchange and leaves the client state as it *)
(* is.                                                                     *)
(***************************************************************************)
\* this step is thread t entering ntp_sync past its pthread_mutex_lock
SyncEnters(t) ==
    /\ StepOf(t)
    /\ frame[t].pc \in {"idle", "done", "ntp_sync"}
    /\ frame'[t].call = "ntp_sync"
    /\ frame'[t].pc # "ntp_sync"

C17_SyncNotInit ==
    [][\A t \in Threads :
          (SyncEnters(t) /\ ~client_state.initialized)
          => /\ frame'[t].pc = "done"
             /\ frame'[t].ret = NTP_ERROR_NOT_INIT
             /\ hist'[t].exch = << >>
             /\ client_state' = client_state]_vars

\* ntp_sync returned NTP_ERROR_NOT_INIT after ntp_cleanup to a client that
\* had synced, and the committed offset is still there
C17_Witness ==
    \E t \in Threads :
        /\ SyncDone(t)
        /\ frame[t].ret = NTP_ERROR_NOT_INIT
        /\ mutex.state = "destroyed"
        /\ Exch(t) = << >>
        /\ client_state.ever_synced
        /\ client_state.time_offset = BigOfInt(5)

(***************************************************************************)
(* C18.  While the local clock does not go back, the values successive     *)
(* ntp_getCurrentTime calls return to one reader on a synced client never  *)
(* decrease, whatever syncs are made in between.                           *)
(* A sync that commits a smaller offset than the one before steps the      *)
(* adjusted time back: TLC finds this violated.                            *)
(***************************************************************************)
CurrentTimeDone(f) ==
    f.pc = "done" /\ f.call = "ntp_getCurrentTime" /\ f.value # BigZero

C18_CurrentTimeMonotonic ==
    [][\A t \in Threads :
          (CurrentTimeDone(frame[t]) /\ CurrentTimeDone(frame'[t]))
          => BigLeq(frame[t].value, frame'[t].value)]_vars

(***************************************************************************)
(* C19.  ntp_time_to_unix_time(unix_time_to_ntp_time(t)) = t for every     *)
(* time_t t, also from 2^32 - 2208988800 on and below -2208988800.         *)
(* unix_time_to_ntp_time returns a uint32_t, so the sum is reduced modulo  *)
(* 2^32 and the way back is off by a multiple of 2^32 outside              *)
(* -2208988800 .. 2085978495: TLC finds this violated.                     *)
(***************************************************************************)
C19_RoundTrip ==
    frame[1].pc = "done" /\ frame[1].call = "create_ntp_packet"
    => frame[1].server_time = frame[1].current_time

(***************************************************************************)
(* C20.  The display invokes a sync once at startup, before its loop, and  *)
(* in each iteration of the loop exactly when the time since the last      *)
(* sync it has read is at least the configured sync_interval or negative;  *)
(* while no sync has succeeded every iteration invokes one; and main       *)
(* leaves its loop by SIGINT only, not after a failed sync.                *)
(***************************************************************************)
\* this step is a step of main, and not its end by SIGINT
MainGoesOn == display'.pc # display.pc /\ display'.pc # "exited"

\* this step is the test of line 1071, on the value ntp_getTimeSinceLastSync
\* has just returned
LoopTests == display.pc = "loop_since" /\ MainGoesOn

\* this step is the return of a failed ntp_sync to main
FailedSyncReturns ==
    /\ display.pc = "syncing"
    /\ MainGoesOn
    /\ frame[1].ret # NTP_OK

C20_DisplaySyncs ==
    [][/\ (display.at = "startup" /\ display'.at = "loop")
          => display.startup_syncs = 1
       /\ LoopTests =>
             /\ display'.pc \in {"sync_name", "draw_time"}
             /\ display'.pc = "sync_name"
                   <=> \/ BigLeq(BigOfInt(DisplayConfig.sync_interval),
                                 frame'[1].value)
                       \/ BigLess(frame'[1].value, BigZero)
             /\ ~(client_state.initialized /\ client_state.ever_synced)
                   => display'.pc = "sync_name"
       /\ (display.pc = "sync_name" /\ MainGoesOn)
          => display'.pc = "sync_call"
       /\ (display.pc = "sync_call" /\ MainGoesOn)
          => display'.pc = "syncing" /\ frame'[1].call = "ntp_sync"
       /\ FailedSyncReturns => display'.pc \in {"loop_time", "draw_time"}
       /\ display'.pc = "exited" => display'.sigint]_vars

\* in its loop main has read exactly the interval since the last successful
\* sync and goes on to sync again
C20_Witness ==
    /\ display.pc = "sync_name"
    /\ display.at = "loop"
    /\ display.time_since_sync = BigOfInt(7200)
    /\ client_state.ever_synced
    /\ frame[1].call = "ntp_getTimeSinceLastSync"

(***************************************************************************)
(* Vocabulary of the properties about the exchange.                        *)
(***************************************************************************)
\* ntp_sync has returned to thread t after exchanges that all failed
AllFailed(t) == SyncDone(t) /\ Len(Exch(t)) > 0 /\ Failures(t) = Len(Exch(t))

\* thread t is in the usleep of line 295
Pausing(t) == frame[t].pc = "sync_sleep"

(***************************************************************************)
(* C21.  The pause between retries is taken without the lock, after a      *)
(* failed exchange, and is followed by another exchange; an invocation     *)
(* whose exchanges all fail has taken retry_count - 1 pauses when it       *)
(* returns, the last of them before its last exchange.                     *)
(* With retry_count = 0, which ntp_init stores (C16), the one exchange of  *)
(* the do-while loop fails without a pause, and 0 is not retry_count - 1:  *)
(* TLC finds this violated.                                                *)
(***************************************************************************)
C21_PausesBetweenAttempts ==
    [][\A t \in Threads :
          /\ Pausing(t)' =>
                /\ t \notin mutex'.owner
                /\ LastExchange(t)'.status # NTP_OK
                /\ hist'[t].pauses = Len(Exch(t)')
          /\ (StepOf(t) /\ Pausing(t)) => frame'[t].pc = "sync_request"
          /\ AllFailed(t)' =>
                /\ hist'[t].pauses = hist'[t].retry_count - 1
                /\ hist'[t].pauses = Len(Exch(t)') - 1]_vars

(***************************************************************************)
(* C22.  Every exchange of an ntp_sync invocation is made with the server  *)
(* name the invocation found configured when it started, and after a pause *)
(* the invocation goes on exactly when its attempts are below the          *)
(* retry_count it found then, whatever ntp_setServer did during the pause. *)
(* The arguments of send_ntp_request are read from client_state at each    *)
(* call (lines 284-286): an ntp_setServer during the pause changes the     *)
(* server of the next exchange.  TLC finds this violated.                  *)
(***************************************************************************)
\* thread t is inside send_ntp_request or has just returned from it
Exchanging(t) == frame[t].pc \in {"sync_wait", "sync_returned"}

C22_ConfigReadAtStart ==
    [][\A t \in Threads :
          /\ Exchanging(t)' =>
                frame'[t].request.server_name = hist'[t].server_name
          /\ (StepOf(t) /\ Pausing(t)) =>
                (frame'[t].pc = "sync_request"
                    <=> frame[t].attempts < hist[t].retry_count)]_vars

(***************************************************************************)
(* C23.  A response datagram of fewer than PACKET_SIZE bytes makes         *)
(* send_ntp_request return NTP_ERROR_NETWORK, and ntp_sync goes on to its  *)
(* commit only from a response of which PACKET_SIZE bytes were received.   *)
(* recvfrom's byte count is tested for < 0 only (line 215): a shorter      *)
(* datagram returns NTP_OK, and the bytes it did not bring are those the   *)
(* uninitialized response buffer held.  TLC finds this violated.           *)
(***************************************************************************)
C23_ShortResponseRejected ==
    [][\A t \in Threads :
          /\ (StepOf(t) /\ frame'[t].pc = "sync_returned"
                /\ frame'[t].request.received \in 0 .. PACKET_SIZE - 1)
             => frame'[t].status = NTP_ERROR_NETWORK
          /\ (StepOf(t) /\ frame'[t].pc = "sync_commit")
             => frame[t].request.received >= PACKET_SIZE]_vars

(***************************************************************************)
(* C24.  A call of send_ntp_request that created a socket has closed it,   *)
(* by one call of close, when it returns, whichever return path it takes;  *)
(* a call that created none closes none; and a socket is open only while   *)
(* its thread is inside send_ntp_request.                                  *)
(***************************************************************************)
C24_SocketClosedOnce ==
    \A t \in Threads :
        /\ frame[t].pc = "sync_returned" =>
              IF frame[t].request.stage = "socket"
              THEN /\ frame[t].request.sockfd = "none"
                   /\ frame[t].request.closes = 0
              ELSE /\ frame[t].request.sockfd = "closed"
                   /\ frame[t].request.closes = 1
        /\ frame[t].request.sockfd = "open" =>
              /\ frame[t].pc = "sync_wait"
              /\ frame[t].request.closes = 0

\* the second exchange of an invocation, after one that timed out, has
\* returned from a failed resolve_hostname with its socket closed
C24_Witness ==
    \E t \in Threads :
        /\ frame[t].pc = "sync_returned"
        /\ Len(Exch(t)) = 2
        /\ Exch(t)[1].status = NTP_ERROR_TIMEOUT
        /\ frame[t].request.stage = "resolve_hostname"
        /\ frame[t].request.sockfd = "closed"
        /\ frame[t].request.closes = 1

(***************************************************************************)
(* C25.  A call of send_ntp_request in which resolve_hostname fails        *)
(* returns an error status other than NTP_ERROR_NETWORK, the status of a   *)
(* failed socket, sendto or recvfrom; and so does an ntp_sync whose last   *)
(* exchange failed that way.                                               *)
(* The return path of line 178 returns NTP_ERROR_NETWORK, and ntp_status_t *)
(* has no status for a failed resolution: TLC finds this violated.         *)
(***************************************************************************)
C25_ResolutionErrorDistinct ==
    [][\A t \in Threads :
          /\ (frame[t].pc = "sync_returned"
                /\ frame[t].request.stage = "resolve_hostname")
             => frame[t].status \notin {NTP_OK, NTP_ERROR_NETWORK}
          /\ (StepOf(t) /\ frame[t].pc = "sync_returned"
                /\ frame[t].request.stage = "resolve_hostname"
                /\ frame'[t].pc = "done")
             => frame'[t].ret \notin {NTP_OK, NTP_ERROR_NETWORK}]_vars

(***************************************************************************)
(* C26.  send_ntp_request returns NTP_ERROR_TIMEOUT exactly when select    *)
(* returned 0, the wait having expired with no datagram; it returns        *)
(* NTP_ERROR_NETWORK when socket, setsockopt, sendto, select or recvfrom   *)
(* failed; and it returns NTP_OK only after recvfrom has received a        *)
(* datagram.                                                               *)
(***************************************************************************)
C26_ExchangeStatus ==
    \A t \in Threads :
        frame[t].pc = "sync_returned" =>
            /\ frame[t].status = NTP_ERROR_TIMEOUT
                  <=> /\ frame[t].request.stage = "timeout"
                      /\ frame[t].request.received = NoDatagram
            /\ frame[t].request.stage
                  \in {"socket", "setsockopt", "sendto", "select", "recvfrom"}
               => frame[t].status = NTP_ERROR_NETWORK
            /\ frame[t].status = NTP_OK
               => /\ frame[t].request.received >= 0
                  /\ frame[t].request.sent = 1
            /\ frame[t].status
                  \in {NTP_OK, NTP_ERROR_NETWORK, NTP_ERROR_TIMEOUT}

\* the request was sent and the wait for its response expired
C26_Witness ==
    \E t \in Threads :
        /\ frame[t].pc = "sync_returned"
        /\ frame[t].request.stage = "timeout"
        /\ frame[t].request.sent = 1
        /\ frame[t].request.received = NoDatagram
        /\ frame[t].status = NTP_ERROR_TIMEOUT

(***************************************************************************)
(* C27.  A call of send_ntp_request sends at most one request datagram and *)
(* receives at most one response; every exchange attempt of an ntp_sync    *)
(* invocation has sent its one request when it returns, so that the        *)
(* requests of the invocation are as many as its attempts; and its         *)
(* attempts are at most the retry_count it found configured.               *)
(* With retry_count = 0, which ntp_init stores (C16), the invocation makes *)
(* one attempt and sends one request; and an attempt that fails before     *)
(* sendto (lines 162-189) has sent none.  TLC finds this violated.         *)
(***************************************************************************)
C27_OneRequestPerAttempt ==
    \A t \in Threads :
        /\ frame[t].request.sent <= 1
        /\ frame[t].request.received \in {NoDatagram} \cup (0 .. PACKET_SIZE)
        /\ frame[t].pc = "sync_returned" => frame[t].request.sent = 1
        /\ (frame[t].call = "ntp_sync" /\ frame[t].ret # NTP_ERROR_NOT_INIT)
           => Attempted(t) <= hist[t].retry_count

(***************************************************************************)
(* C28.  Every ntp_sync invocation returns, having made at most the        *)
(* retry_count exchanges it found configured, also while other threads     *)
(* call the readers, ntp_setServer and ntp_sync; and every call that waits *)
(* for the lock returns.                                                   *)
(* With retry_count = 0, which ntp_init stores (C16), the invocation       *)
(* returns after one exchange: TLC finds this violated.                    *)
(***************************************************************************)
\* thread t is inside ntp_sync
InSync(t) == frame[t].call = "ntp_sync" /\ frame[t].pc # "done"

\* the operation thread t has called has returned
CallDone(t) == frame[t].pc = "done"

C28_SyncTerminates ==
    /\ \A t \in Threads : InSync(t) ~> CallDone(t)
    /\ \A t \in Threads : Waiting(t) ~> CallDone(t)
    /\ [][\A t \in Threads :
             (frame'[t].call = "ntp_sync" /\ frame'[t].ret # NTP_ERROR_NOT_INIT)
             => Attempted(t)' <= hist'[t].retry_count]_vars

(***************************************************************************)
(* Vocabulary of the properties about the lock.                            *)
(***************************************************************************)
\* thread t is inside the lock-protected section of ntp_sync: between a
\* pthread_mutex_lock (lines 274, 296) and the next pthread_mutex_unlock
InSection(t) ==
    frame[t].pc \in {"sync_request", "sync_wait", "sync_returned", "sync_commit"}

\* in this step pthread_mutex_lock returns to thread t: after the pause of
\* ntp_sync, or in an operation it has called, which is not one that
\* returns before it locks (lines 385-387, 416-418)
TakesLock(t) ==
    /\ StepOf(t)
    /\ \/ Pausing(t)
       \/ /\ Idle(t) \/ Waiting(t)
          /\ frame'[t].pc \notin Calls
          /\ frame'[t].call \in Calls \cup {"ntp_cleanup"}
          /\ frame'[t].call = "ntp_getServerName" =>
                (frame'[t].arg.buffer # NULL /\ frame'[t].arg.buffer_size # 0)
          /\ frame'[t].call = "ntp_setServer" =>
                frame'[t].arg.server_name # NULL

(***************************************************************************)
(* C29.  When every thread is outside the operations the lock is free; a   *)
(* thread inside the lock-protected section of ntp_sync is the one thread  *)
(* that holds the lock; and no thread takes the lock while another is      *)
(* inside that section.                                                    *)
(* An ntp_init called while a thread is inside ntp_sync (C30) initializes  *)
(* the locked mutex again (line 237) and goes through its own section      *)
(* (lines 241-253), after which any thread can take the lock: TLC finds    *)
(* this violated.                                                          *)
(***************************************************************************)
C29_LockReleased ==
    [][/\ (\A t \in Threads : Idle(t)') => mutex'.owner = {}
       /\ \A t \in Threads : InSection(t)' => mutex'.owner = {t}
       /\ \A t \in Threads :
             TakesLock(t) => \A u \in Threads \ {t} : ~InSection(u)]_vars

(***************************************************************************)
(* C30.  The mutex is locked and unlocked only between a successful        *)
(* pthread_mutex_init and pthread_mutex_destroy, and it is not initialized *)
(* again while a thread holds it: every pthread_mutex_lock that returns    *)
(* and every pthread_mutex_unlock of ntp_sync finds the mutex initialized, *)
(* and a thread that holds the lock keeps it until its own next step.      *)
(* Every operation but ntp_init locks client_state.lock whether or not     *)
(* ntp_init has succeeded before: TLC finds this violated.                 *)
(***************************************************************************)
C30_LockOnlyInitialized ==
    [][\A t \in Threads :
          /\ TakesLock(t) => mutex.state = "init"
          /\ (StepOf(t) /\ InSection(t) /\ ~InSection(t)')
             => mutex.state = "init"
          /\ (t \in mutex.owner /\ ~StepOf(t)) => t \in mutex'.owner]_vars

(***************************************************************************)
(* C31.  Whenever ever_synced is true, the stored fields satisfy           *)
(* time_offset = ntp_time - last_sync_time, ntp_time and last_sync_time    *)
(* being the server time and the local time of the most recent successful  *)
(* sync.  C31_OffsetInEveryState states it of every reachable state.       *)
(* ntp_sync writes time_offset at line 324 and the other three fields at   *)
(* lines 327-329, so a second successful sync passes through a state with  *)
(* the new offset and the old ntp_time and last_sync_time; the lock is     *)
(* held in that state.  C31_OffsetOutsideCommit states it of every state   *)
(* in which no ntp_sync is between line 324 and line 329, ntp_init and     *)
(* ntp_cleanup being called while no other thread is inside the client.    *)
(***************************************************************************)
Committing(t) == frame[t].pc = "sync_commit"

OffsetOfLastSync ==
    client_state.time_offset
       = BigSub(client_state.ntp_time, client_state.last_sync_time)

C31_OffsetInEveryState == client_state.ever_synced => OffsetOfLastSync

C31_OffsetOutsideCommit ==
    /\ (client_state.ever_synced /\ \A t \in Threads : ~Committing(t))
          => OffsetOfLastSync
    /\ \A t \in Threads :
          (SyncDone(t) /\ frame[t].ret = NTP_OK /\ tag.last = t)
             => /\ client_state.ever_synced
                /\ client_state.ntp_time
                      = UnixOf(LastExchange(t).response.tx_timestamp_sec)

\* a sync made one second after an earlier one has committed: the stored
\* offset is the one of the later sync
C31_Witness ==
    \E t \in Threads :
        /\ SyncDone(t)
        /\ frame[t].ret = NTP_OK
        /\ tag.last = t
        /\ \A u \in Threads : ~Committing(u)
        /\ client_state.ever_synced
        /\ client_state.ntp_time = Big(1, 700000000)
        /\ client_state.last_sync_time = Big(1, 699999996)
        /\ client_state.time_offset = BigOfInt(4)
        /\ OffsetOfLastSync

(***************************************************************************)
(* C32.  The never-synced value is unambiguous: ntp_getCurrentTime returns *)
(* 0, and ntp_getCurrentTimeWithMicros returns 0.0, only when the client   *)
(* is uninitialized or has never synced, never in a synced state, whatever *)
(* the committed offset and the reading of the local clock.                *)
(***************************************************************************)
ZeroWithMicros == [sec |-> BigZero, usec |-> 0]

C32_SentinelUnambiguous ==
    [][\A t \in Threads :
          /\ (StepOf(t) /\ frame'[t].pc = "done"
                /\ frame'[t].call = "ntp_getCurrentTime"
                /\ frame'[t].value = BigZero)
             => NeverSynced
          /\ (StepOf(t) /\ frame'[t].pc = "done"
                /\ frame'[t].call = "ntp_getCurrentHundredths"
                /\ \E usec \in EnvMicros :
                      ntp_getCurrentTimeWithMicros(usec) = ZeroWithMicros)
             => NeverSynced]_vars

(***************************************************************************)
(* C33.  ever_synced is true only if some ntp_sync has returned NTP_OK     *)
(* since the most recent ntp_init: ntp_init resets ever_synced,            *)
(* last_sync_time, ntp_time and time_offset to their never-synced values,  *)
(* and no operation but a successful ntp_sync sets ever_synced.            *)
(* C33_EveryInitResets states it of every call of ntp_init.  An ntp_init   *)
(* that returns an error (a NULL config, line 232; a failure of            *)
(* pthread_mutex_init, line 237) returns before line 244 and resets        *)
(* nothing.  C33_SuccessfulInitResets states it of the calls of ntp_init   *)
(* that return NTP_OK, and that the others leave client_state alone.       *)
(***************************************************************************)
InitReturns(t) ==
    StepOf(t) /\ frame'[t].pc = "done" /\ frame'[t].call = "ntp_init"

ClockReset ==
    /\ ~client_state.ever_synced
    /\ client_state.last_sync_time = BigZero
    /\ client_state.ntp_time = BigZero
    /\ client_state.time_offset = BigZero

\* ever_synced goes from false to true in the step in which an ntp_sync
\* returns NTP_OK, and in no other
OnlySyncSets ==
    (client_state'.ever_synced /\ ~client_state.ever_synced)
       => \E t \in Threads :
             /\ StepOf(t)
             /\ frame[t].call = "ntp_sync"
             /\ frame'[t].pc = "done"
             /\ frame'[t].ret = NTP_OK

C33_EveryInitResets ==
    [][/\ \A t \in Threads : InitReturns(t) => ClockReset'
       /\ OnlySyncSets]_vars

C33_SuccessfulInitResets ==
    [][/\ \A t \in Threads :
            InitReturns(t) =>
               IF frame'[t].ret = NTP_OK
               THEN ClockReset' /\ client_state'.initialized
               ELSE client_state' = client_state
       /\ OnlySyncSets]_vars

\* one thread's ntp_sync has returned NTP_OK and another thread's ntp_init
\* has returned NTP_OK after it: the client is initialized and never synced
C33_Witness ==
    \E t \in Threads : \E u \in Threads \ {t} :
        /\ SyncDone(u)
        /\ frame[u].ret = NTP_OK
        /\ frame[t].pc = "done"
        /\ frame[t].call = "ntp_init"
        /\ frame[t].ret = NTP_OK
        /\ client_state.initialized
        /\ ClockReset

(***************************************************************************)
(* C34.  ntp_sync on an initialized client makes at least one exchange,    *)
(* also when the configured retry_count is 0: with retry_count = 0 it      *)
(* makes exactly one exchange and takes no pause.  (ntp_sync returns       *)
(* NTP_ERROR_NOT_INIT exactly when it finds the client uninitialized.)     *)
(***************************************************************************)
C34_AtLeastOneAttempt ==
    \A t \in Threads :
        frame[t].call = "ntp_sync" =>
            /\ (SyncDone(t) /\ frame[t].ret # NTP_ERROR_NOT_INIT)
                  => Len(Exch(t)) >= 1
            /\ (SyncDone(t) /\ frame[t].ret = NTP_ERROR_NOT_INIT)
                  => Len(Exch(t)) = 0
            /\ hist[t].retry_count = 0
                  => /\ Attempted(t) <= 1
                     /\ ~Pausing(t)
                     /\ hist[t].pauses = 0
                     /\ (SyncDone(t) /\ frame[t].ret # NTP_ERROR_NOT_INIT)
                           => Len(Exch(t)) = 1

\* with retry_count 0, ntp_sync has returned the time-out of its one
\* exchange
C34_Witness ==
    \E t \in Threads :
        /\ SyncDone(t)
        /\ client_state.initialized
        /\ client_state.config.retry_count = 0
        /\ hist[t].retry_count = 0
        /\ Len(Exch(t)) = 1
        /\ LastExchange(t).status = NTP_ERROR_TIMEOUT
        /\ frame[t].ret = NTP_ERROR_TIMEOUT
        /\ hist[t].pauses = 0

====
